---- MODULE Spec2Model ----
(***************************************************************************)
(* VitalSync simulation-and-analytics pipeline (src/app.js).               *)
(*                                                                         *)
(* Number representation.  The program computes in IEEE doubles.  The      *)
(* model keeps doubles, bit for bit, where a result is compared exactly    *)
(* (the correlation coefficients, the deviations and the risk scores of    *)
(* updateRisks), and fixed point elsewhere:                                *)
(*   - a signal's value, baseline, min, max, variance and every history    *)
(*     entry are integers in TENTHS (72.0 BPM is 720): the program rounds  *)
(*     every stored value to one decimal;                                  *)
(*   - the intermediate newVal of generateVital and the entries of         *)
(*     trendData (which init() stores unrounded) are in 10^-6 ("fine"      *)
(*     units, 72.0 is 72000000);                                           *)
(*   - a Gaussian sample is an integer in tenths of a standard deviation;  *)
(*   - a correlation coefficient is a double <<sign, exponent, high, low>>;*)
(*   - a risk value is an integer in 1/RiskScale, a risk target an integer *)
(*     (the program rounds it).                                            *)
(***************************************************************************)
EXTENDS Integers, Sequences, FiniteSets, TLC

VARIABLES
    vitals,           \* state.vitals: signal -> [value, baseline, min, max, variance, history]
    correlations,     \* state.correlations: <<a, b>> -> coefficient
    risks,            \* state.risks: category -> [value, target, factors]
    anomalies,        \* state.anomalies: event log, newest first
    anomalyStats,     \* state.anomalyStats: [total, critical, resolved]
    trendData,        \* state.trendData: signal -> sequence
    tick,             \* state.tick
    anomalyMode,      \* state.anomalyMode
    anomalyModeStart, \* state.anomalyModeStart
    nextAnomalyTick,  \* state.nextAnomalyTick
    now,              \* the wall clock read by new Date() / Date.now(), in ms
    seed,             \* which stream of Gaussian samples gaussRandom() delivers
    lastOp,           \* the operation that produced the current state
    script, calls,    \* direct addAnomaly calls: their arguments and their number
    px, py, pr,       \* arguments and result of a direct pearsonCorrelation call
    pc,               \* position in updateAllVitals: 0 between two calls, else
                      \* the number of the step that comes next
    shown             \* the page: for every panel, what was last drawn on it

vars == <<vitals, correlations, risks, anomalies, anomalyStats, trendData, tick,
          anomalyMode, anomalyModeStart, nextAnomalyTick, now, seed, lastOp,
          script, calls, px, py, pr, pc, shown>>

engineVars == <<vitals, correlations, risks, anomalies, anomalyStats, trendData,
                tick, anomalyMode, anomalyModeStart, nextAnomalyTick, now>>

----------------------------------------------------------------------------
(* Bounds of the model *)

(* ticks of one run of the engine *)
MaxTick == 78
(* the noise streams are 0..MaxSeed *)
MaxSeed == 2
(* Math.random() ranges over k / RandomDen, 0 <= k < RandomDen *)
RandomDen == 4
(* direct calls of addAnomaly in one run *)
MaxAppends == 17
(* period of the sequence of event kinds appended *)
ScriptLen == 3
(* largest starting distance from the baseline, in tenths *)
MaxDist == 10
(* ticks of one run of the engine without noise *)
MaxCalm == 50
(* largest length of a series given to pearsonCorrelation *)
MaxLen == 6
(* direct calls of renderRisks in one run *)
MaxRenders == 6
(* ticks of one run that starts from chosen risk values *)
MaxSmoothTicks == 2
MaxEventTick == 53
MaxLiveTick == 120

(* CONFIG *)

updateInterval == 2000
chartPoints == 40
trendPoints == 60
signals == <<"hr", "spo2", "bp_sys", "bp_dia", "temp", "rr", "hrv">>
trendSignals == <<"hr", "spo2", "bp_sys", "bp_dia", "rr", "hrv">>
matrixSignals == <<"hr", "spo2", "bp_sys", "temp", "rr", "hrv">>

SignalSet == {signals[i] : i \in 1..Len(signals)}
TrendSet == {trendSignals[i] : i \in 1..Len(trendSignals)}
MatrixSet == {matrixSignals[i] : i \in 1..Len(matrixSignals)}

(* the literal of state.vitals, in tenths *)
initialVitals ==
    [hr     |-> [value |-> 720,  baseline |-> 720,  min |-> 550, max |-> 1050, variance |-> 30, history |-> <<>>],
     spo2   |-> [value |-> 980,  baseline |-> 980,  min |-> 920, max |-> 1000, variance |-> 5,  history |-> <<>>],
     bp_sys |-> [value |-> 1200, baseline |-> 1200, min |-> 950, max |-> 1500, variance |-> 40, history |-> <<>>],
     bp_dia |-> [value |-> 800,  baseline |-> 800,  min |-> 600, max |-> 1000, variance |-> 30, history |-> <<>>],
     temp   |-> [value |-> 986,  baseline |-> 986,  min |-> 965, max |-> 1010, variance |-> 2,  history |-> <<>>],
     rr     |-> [value |-> 160,  baseline |-> 160,  min |-> 100, max |-> 250,  variance |-> 15, history |-> <<>>],
     hrv    |-> [value |-> 420,  baseline |-> 420,  min |-> 150, max |-> 800,  variance |-> 40, history |-> <<>>]]

firstAnomalyTick == 30
maxAnomalies == 15
anomalyDuration == 20
rampTicks == 15
retriggerBase == 25
retriggerSpan == 20
minSamples == 5
prefillHistory == 15
prefillTrend == 20

----------------------------------------------------------------------------
(* UTILITIES *)

Abs(a) == IF a < 0 THEN -a ELSE a
Min2(a, b) == IF a < b THEN a ELSE b
Max2(a, b) == IF a > b THEN a ELSE b

clamp(v, lo, hi) == Max2(lo, Min2(hi, v))

(* Math.round(newVal * 10) / 10: fine units in, tenths out; Math.round
   rounds a half toward +infinity, which is what the floor of x + 1/2 does *)
roundTenth(fine) == (fine + 50000) \div 100000

(* fine units of a number of tenths *)
Fine(tenths) == tenths * 100000

(* a faulty capped push: >= for >, which stops a step below the cap *)
pushCappedEager(s, x, cap) ==
    LET t == Append(s, x)
    IN IF Len(t) >= cap THEN Tail(t) ELSE t

(* a faulty capped push: pop() for shift(), which drops the value just pushed *)
pushCappedPop(s, x, cap) ==
    LET t == Append(s, x)
    IN IF Len(t) > cap THEN SubSeq(t, 1, cap) ELSE t

(* array.push(x) followed by shift() when the length exceeds cap *)
pushCapped(s, x, cap) ==
    LET t == Append(s, x)
    IN IF Len(t) > cap THEN Tail(t) ELSE t

(* Math.sin(tick * 0.02) in units of 10^-5, for 0 <= t <= 140.  The angle
   is t / 50 and the sine is its Taylor series through the term of degree
   17, in Horner's form
       x (1 - x^2/(2*3) (1 - x^2/(4*5) (1 - ... (1 - x^2/(16*17))))),
   the factor after x^2/((n-1) n) being h(n + 1). *)
SinE5(t) ==
    LET x2(h, n) == (h * t * t) \div (2500 * (n - 1) * n)
        h17 == 100000 - x2(100000, 17)
        h15 == 100000 - x2(h17, 15)
        h13 == 100000 - x2(h15, 13)
        h11 == 100000 - x2(h13, 11)
        h9  == 100000 - x2(h11, 9)
        h7  == 100000 - x2(h9, 7)
        h5  == 100000 - x2(h7, 5)
        h3  == 100000 - x2(h5, 3)
    IN (t * h3) \div 50

(* gaussRandom(): the k-th sample drawn for signal number s in tick t, in
   tenths of a standard deviation.  Box-Muller over Math.random() is replaced
   by a fixed stream per seed.  Stream 0 is identically 0: it is what the
   program computes when every Math.random() returns 0.25, each sample then
   being 1.0e-16, which the additions and the rounding to one decimal absorb.
   Stream 2 holds +-3 sigma in runs of five ticks so that the clamps are
   reached, and the other streams spread over +-(0.4 * 4 * seed) sigma. *)
gaussRandom(sd, t, s, k) ==
    IF sd = 0 THEN 0
    ELSE IF sd = 2 THEN (IF ((t \div 5) + s) % 2 = 0 THEN 30 ELSE -30)
    ELSE (((t * 7 + s * 5 + k * 11) % 9) - 4) * 4 * sd

----------------------------------------------------------------------------
(* IEEE-754 DOUBLE ARITHMETIC                                              *)
(*                                                                         *)
(* pearsonCorrelation compares its results with 0 exactly, and what it     *)
(* returns for constant or collinear series is decided by the rounding of  *)
(* its sums, so its arithmetic is modelled bit for bit.  A double is       *)
(* <<sg, ex, hi, lo>> and stands for sg * (hi * 2^28 + lo) * 2^ex with     *)
(* sg in {-1, 1} and 2^52 <= hi * 2^28 + lo < 2^53; zero is <<0,0,0,0>>.   *)
(* Every operation rounds to nearest, ties to even.  Subnormals,           *)
(* infinities and NaN do not arise for the magnitudes of this program.     *)
(* The operations are functions, so that an operand is evaluated once,     *)
(* before the operation is applied to it.                                  *)

Zero == <<0, 0, 0, 0>>
One == <<1, -52, 2^24, 0>>

L28 == 2^28
D14 == 2^14

(* the tuples that hold a double, and the arrays of doubles *)
Double == Seq(Int)
DoubleArray == Seq(Double)

(* index of the highest set bit of x, 1 <= x < 2^(2 * w), by bisection; w is
   a power of two or 0 *)
MsbIn[x \in Int, w \in Int] ==
    IF w = 0 THEN 0
    ELSE IF x >= 2^w THEN w + MsbIn[x \div 2^w, w \div 2]
    ELSE MsbIn[x, w \div 2]

(* index of the highest set bit of x, for 1 <= x < 2^31 *)
Msb[x \in Int] == MsbIn[x, 16]

(* (hi * 2^28 + lo) shifted right by r bits, hi < 2^28; the third component
   is 1 when a nonzero bit was shifted out *)
ShiftR[hi \in Int, lo \in Int, r \in Int] ==
    IF r = 0 THEN <<hi, lo, 0>>
    ELSE IF r < 28
    THEN <<hi \div 2^r, lo \div 2^r + (hi % 2^r) * 2^(28 - r),
           IF lo % 2^r # 0 THEN 1 ELSE 0>>
    ELSE IF r < 56
    THEN <<0, hi \div 2^(r - 28),
           IF hi % 2^(r - 28) # 0 \/ lo # 0 THEN 1 ELSE 0>>
    ELSE <<0, 0, IF hi # 0 \/ lo # 0 THEN 1 ELSE 0>>

(* RoundPack for a nonzero number whose highest set bit has index p *)
Normalize[sg \in Int, ex \in Int, hi \in Int, lo \in Int, st \in Int, p \in Int] ==
    IF p <= 52
    THEN LET k == 52 - p
         IN IF k >= 28 THEN <<sg, ex - k, lo * 2^(k - 28), 0>>
            ELSE <<sg, ex - k, hi * 2^k + lo \div 2^(28 - k),
                   (lo % 2^(28 - k)) * 2^k>>
    ELSE LET r == p - 52
             dropped == lo % 2^r
             half == 2^(r - 1)
             mh == hi \div 2^r
             ml == lo \div 2^r + (hi % 2^r) * 2^(28 - r)
             up == dropped > half
                   \/ (dropped = half /\ (st = 1 \/ ml % 2 = 1))
             ml1 == IF up THEN ml + 1 ELSE ml
             mh1 == IF ml1 = L28 THEN mh + 1 ELSE mh
         IN IF mh1 = 2^25 THEN <<sg, ex + r + 1, 2^24, 0>>
            ELSE <<sg, ex + r, mh1, ml1 % L28>>

(* the double nearest to sg * (hi * 2^28 + lo + f) * 2^ex, where 0 <= f < 1
   and f # 0 iff st = 1; hi < 2^30 *)
RoundPack[sg \in Int, ex \in Int, hi \in Int, lo \in Int, st \in Int] ==
    IF hi = 0 /\ lo = 0 THEN Zero
    ELSE Normalize[sg, ex, hi, lo, st,
                   IF hi > 0 THEN 28 + Msb[hi] ELSE Msb[lo]]

(* RoundPack of a quotient or root q = <<hi, lo, remainder ...>>: the result
   is inexact iff a remainder is left *)
roundQuotient[sg \in Int, ex \in Int, q \in Seq(Int)] ==
    RoundPack[sg, ex, q[1], q[2],
              IF \E i \in 3..Len(q) : q[i] # 0 THEN 1 ELSE 0]

fneg[a \in Double] == <<-a[1], a[2], a[3], a[4]>>

(* A + sb * |B| for |A| >= |B| # 0, where sh is the mantissa of B with three
   guard bits, shifted to the exponent of A, and sb the sign of B *)
addAligned[A \in Double, sh \in Seq(Int), sb \in Int] ==
    LET ah == A[3] * 8 + A[4] \div 2^25
        al == (A[4] % 2^25) * 8
    IN IF A[1] = sb
       THEN LET l == al + sh[2]
            IN RoundPack[A[1], A[2] - 3, ah + sh[1] + l \div L28, l % L28, sh[3]]
       ELSE LET l == al - sh[2] - sh[3]
                borrow == IF l < 0 THEN 1 ELSE 0
            IN RoundPack[A[1], A[2] - 3, ah - sh[1] - borrow,
                         l + borrow * L28, sh[3]]

(* A + B for |A| >= |B| # 0 *)
addOrdered[A \in Double, B \in Double] ==
    addAligned[A, ShiftR[B[3] * 8 + B[4] \div 2^25, (B[4] % 2^25) * 8,
                         A[2] - B[2]], B[1]]

(* a + b *)
fadd[a \in Double, b \in Double] ==
    IF a[1] = 0 THEN b
    ELSE IF b[1] = 0 THEN a
    ELSE IF \/ a[2] < b[2]
            \/ a[2] = b[2] /\ a[3] < b[3]
            \/ a[2] = b[2] /\ a[3] = b[3] /\ a[4] < b[4]
    THEN addOrdered[b, a]
    ELSE addOrdered[a, b]

(* a - b *)
fsub[a \in Double, b \in Double] == fadd[a, fneg[b]]

(* the digits in base 2^14 of the sum of the cs[j] * 2^(14 (j - 1)), lowest
   first and the highest one unbounded; ds holds the digits below position k
   and c is the carry into position k *)
Carry[cs \in Seq(Int), k \in Int, c \in Int, ds \in Seq(Int)] ==
    IF k = Len(cs) THEN Append(ds, cs[k] + c)
    ELSE Carry[cs, k + 1, (cs[k] + c) \div D14, Append(ds, (cs[k] + c) % D14)]

(* the double nearest to sg * d * 2^(ex - 50) for the 106-bit product d given
   by its seven digits in base 2^14 *)
mulPack[sg \in Int, ex \in Int, d \in Seq(Int)] ==
    LET tlo == d[6] * D14 + d[5]
        st == IF d[4] % 256 # 0 \/ d[3] # 0 \/ d[2] # 0 \/ d[1] # 0
              THEN 1 ELSE 0
    IN RoundPack[sg, ex, d[7] * 64 + tlo \div 2^22,
                 (tlo % 2^22) * 64 + d[4] \div 256, st]

(* a * b: the mantissas are multiplied digit by digit in base 2^14 *)
fmul[a \in Double, b \in Double] ==
    IF a[1] = 0 \/ b[1] = 0 THEN Zero
    ELSE
    LET a3 == a[3] \div D14
        a2 == a[3] % D14
        a1 == a[4] \div D14
        a0 == a[4] % D14
        b3 == b[3] \div D14
        b2 == b[3] % D14
        b1 == b[4] \div D14
        b0 == b[4] % D14
    IN mulPack[a[1] * b[1], a[2] + b[2] + 50,
               Carry[<<a0 * b0,
                       a0 * b1 + a1 * b0,
                       a0 * b2 + a1 * b1 + a2 * b0,
                       a0 * b3 + a1 * b2 + a2 * b1 + a3 * b0,
                       a1 * b3 + a2 * b2 + a3 * b1,
                       a2 * b3 + a3 * b2,
                       a3 * b3>>, 1, 0, <<>>]]

(* the quotient (hi * 2^28 + lo) of a division by n, continued by `bits`
   more binary places from the remainder rem *)
Extend[hi \in Int, lo \in Int, rem \in Int, n \in Int, bits \in Int] ==
    IF bits = 0 THEN <<hi, lo, rem>>
    ELSE LET c == IF bits < 14 THEN bits ELSE 14
             cur == rem * 2^c
         IN Extend[hi * 2^c + lo \div 2^(28 - c),
                   (lo % 2^(28 - c)) * 2^c + cur \div n,
                   cur % n, n, bits - c]

(* the double nearest to k / n, for integers |k| < 2^28 and 0 < n < 2^17 *)
fromRatio[k \in Int, n \in Int] ==
    IF k = 0 THEN Zero
    ELSE LET m == IF k < 0 THEN -k ELSE k
             s == 55 - Msb[m] + Msb[n]
         IN roundQuotient[IF k < 0 THEN -1 ELSE 1, -s,
                          Extend[0, m \div n, m % n, n, s]]

(* the double that holds a stored value of k tenths: Math.round(v * 10) / 10 *)
fromTenths[k \in Int] == fromRatio[k, 10]

(* a / n for a positive integer n < 2^17 *)
fdivInt[a \in Double, n \in Int] ==
    IF a[1] = 0 THEN Zero
    ELSE LET s  == Msb[n] + 3
             c1 == (a[3] % n) * D14 + a[4] \div D14
             c0 == (c1 % n) * D14 + (a[4] % D14)
         IN roundQuotient[a[1], a[2] - s,
                          Extend[a[3] \div n, (c1 \div n) * D14 + c0 \div n,
                                 c0 % n, n, s]]

(* one step of the long division by (dh * 2^28 + dl): the state is
   <<qh, ql, rh, rl, bits>>, quotient so far, remainder, and the number of
   quotient bits still to produce *)
DivStep[st \in Seq(Int), dh \in Int, dl \in Int] ==
    IF st[5] = 0 THEN st
    ELSE LET l2 == st[4] * 2
             h2 == st[3] * 2 + l2 \div L28
             m2 == l2 % L28
             bw == IF m2 < dl THEN 1 ELSE 0
         IN IF h2 > dh \/ (h2 = dh /\ m2 >= dl)
            THEN <<st[1] * 2 + (st[2] * 2 + 1) \div L28, (st[2] * 2 + 1) % L28,
                   h2 - dh - bw, m2 - dl + bw * L28, st[5] - 1>>
            ELSE <<st[1] * 2 + (st[2] * 2) \div L28, (st[2] * 2) % L28,
                   h2, m2, st[5] - 1>>

(* the long division run to its end, four quotient bits at a time *)
DivBits[st \in Seq(Int), dh \in Int, dl \in Int] ==
    IF st[5] = 0 THEN st
    ELSE DivBits[DivStep[DivStep[DivStep[DivStep[st, dh, dl], dh, dl],
                                 dh, dl], dh, dl], dh, dl]

(* a / b, b # 0 *)
fdiv[a \in Double, b \in Double] ==
    IF a[1] = 0 THEN Zero
    ELSE LET ge == a[3] > b[3] \/ (a[3] = b[3] /\ a[4] >= b[4])
             bw == IF a[4] < b[4] THEN 1 ELSE 0
         IN roundQuotient[a[1] * b[1], a[2] - b[2] - 56,
               SubSeq(DivBits[IF ge THEN <<0, 1, a[3] - b[3] - bw,
                                           a[4] - b[4] + bw * L28, 56>>
                              ELSE <<0, 0, a[3], a[4], 56>>,
                              b[3], b[4]], 1, 4)]

(* one step of the digit recurrence of the square root: the state is
   <<sh, sl, rh, rl, xh, xl, steps>>, the root so far, the remainder, the
   radicand bits still to be consumed (two per step) and the steps left *)
SqrtStep[st \in Seq(Int)] ==
    IF st[7] = 0 THEN st
    ELSE LET l4 == st[4] * 4 + st[5] \div 2^24
             h4 == st[3] * 4 + l4 \div L28
             m4 == l4 % L28
             tl == st[2] * 4 + 1
             th == st[1] * 4 + tl \div L28
             tm == tl % L28
             bw == IF m4 < tm THEN 1 ELSE 0
             xh == (st[5] % 2^24) * 4 + st[6] \div 2^26
             xl == (st[6] % 2^26) * 4
         IN IF h4 > th \/ (h4 = th /\ m4 >= tm)
            THEN <<st[1] * 2 + (st[2] * 2 + 1) \div L28, (st[2] * 2 + 1) % L28,
                   h4 - th - bw, m4 - tm + bw * L28, xh, xl, st[7] - 1>>
            ELSE <<st[1] * 2 + (st[2] * 2) \div L28, (st[2] * 2) % L28,
                   h4, m4, xh, xl, st[7] - 1>>

(* the recurrence run to its end, five root bits at a time *)
SqrtBits[st \in Seq(Int)] ==
    IF st[7] = 0 THEN st
    ELSE SqrtBits[SqrtStep[SqrtStep[SqrtStep[SqrtStep[SqrtStep[st]]]]]]

(* Math.sqrt(a), a >= 0 *)
fsqrt[a \in Double] ==
    IF a[1] = 0 THEN Zero
    ELSE LET odd == a[2] % 2 = 1
         IN roundQuotient[1, ((IF odd THEN a[2] - 1 ELSE a[2]) - 56) \div 2,
               SubSeq(SqrtBits[<<0, 0, 0, 0,
                                 IF odd THEN a[3] * 2 + (a[4] * 2) \div L28
                                 ELSE a[3],
                                 IF odd THEN (a[4] * 2) % L28 ELSE a[4],
                                 55>>], 1, 4)]

isZero(a) == a[1] = 0

(* |a| <= 1 *)
withinOne(a) == a[1] = 0 \/ a[2] < -52 \/ (a[2] = -52 /\ a[3] = 2^24 /\ a[4] = 0)

CorrBits == 4 * 4
CorrScale == 2^CorrBits

(* floor(|a| * CorrScale), saturating at 2^30 *)
toFixed[a \in Double] ==
    IF a[1] = 0 THEN 0
    ELSE LET sh == -(a[2] + CorrBits)
         IN IF sh < 25 THEN 2^30
            ELSE IF sh >= 56 THEN 0
            ELSE IF sh >= 28 THEN a[3] \div 2^(sh - 28)
            ELSE a[3] * 2^(28 - sh) + a[4] \div 2^sh

----------------------------------------------------------------------------
(* PEARSON CORRELATION *)

(* the array of the n elements f[1], ..., f[n] *)
arrayOf(f, n) == SubSeq(f, 1, n)

(* x.slice(-n), as doubles *)
slice[x \in Seq(Int), n \in Int] ==
    arrayOf([i \in 1..n |-> fromTenths[x[Len(x) - n + i]]], n)

(* one step of xs.reduce((a, b) => a + b, 0) at index i *)
sumStep(xs, i, acc) == IF i > Len(xs) THEN acc ELSE fadd[acc, xs[i]]

(* the reduction run to its end from index i, four steps at a time *)
sumFrom[xs \in DoubleArray, i \in Int, acc \in Double] ==
    IF i > Len(xs) THEN acc
    ELSE sumFrom[xs, i + 4,
             sumStep(xs, i + 3, sumStep(xs, i + 2,
                 sumStep(xs, i + 1, sumStep(xs, i, acc))))]

(* xs.reduce((a, b) => a + b, 0) *)
fsum[xs \in DoubleArray] == sumFrom[xs, 1, Zero]

(* one step of the loop's   acc += xd[i] * yd[i] *)
dotStep(xd, yd, i, acc) ==
    IF i > Len(xd) THEN acc ELSE fadd[acc, fmul[xd[i], yd[i]]]

(* the loop run to its end from index i, four steps at a time *)
dotFrom[xd \in DoubleArray, yd \in DoubleArray, i \in Int, acc \in Double] ==
    IF i > Len(xd) THEN acc
    ELSE dotFrom[xd, yd, i + 4,
             dotStep(xd, yd, i + 3, dotStep(xd, yd, i + 2,
                 dotStep(xd, yd, i + 1, dotStep(xd, yd, i, acc))))]

(* the sum of the xd[i] * yd[i], accumulated from 0 in the order of the loop *)
fdot[xd \in DoubleArray, yd \in DoubleArray] == dotFrom[xd, yd, 1, Zero]

(* mx = xs.reduce(...) / n *)
mean[xs \in DoubleArray] == fdivInt[fsum[xs], Len(xs)]

(* the deviations xs[i] - m *)
deviations[xs \in DoubleArray, m \in Double] ==
    arrayOf([i \in 1..Len(xs) |-> fsub[xs[i], m]], Len(xs))

(* what pearsonCorrelation computes from one series alone *)
Centered == [dev : DoubleArray, sq : Double]

(* the deviations together with their sum of squares (dx or dy) *)
withSquares[dev \in DoubleArray] == [dev |-> dev, sq |-> fdot[dev, dev]]

(* the deviations of the samples xs from their mean, and dx *)
centeredOf[xs \in DoubleArray] == withSquares[deviations[xs, mean[xs]]]

(* the same for the last n samples of the stored series x *)
centered[x \in Seq(Int), n \in Int] == centeredOf[slice[x, n]]

(* denom === 0 ? 0 : num / denom *)
quotient[num \in Double, denom \in Double] ==
    IF isZero(denom) THEN Zero ELSE fdiv[num, denom]

(* the rest of pearsonCorrelation: num, denom and the quotient *)
pearsonOf[cx \in Centered, cy \in Centered] ==
    quotient[fdot[cx.dev, cy.dev], fsqrt[fmul[cx.sq, cy.sq]]]

pearsonCorrelation(x, y) ==
    LET n == Min2(Len(x), Len(y))
    IN IF n < minSamples THEN Zero
       ELSE pearsonOf[centered[x, n], centered[y, n]]

----------------------------------------------------------------------------
(* ANOMALY EVENTS *)

(* a faulty eviction: shift() for pop(), which drops the event just added *)
evictFront(log) ==
    IF Len(log) > maxAnomalies THEN Tail(log) ELSE log

(* the pop() of addAnomaly: drops the last entry of a log longer than 15 *)
evict(log) ==
    IF Len(log) > maxAnomalies THEN SubSeq(log, 1, Len(log) - 1) ELSE log

(* faulty statistics: an active event of lower severity is not counted as
   critical *)
statsOfSeverity(log) ==
    [total |-> Len(log),
     critical |-> Len(SelectSeq(log, LAMBDA a : a.severity = "high")),
     resolved |-> Len(SelectSeq(log, LAMBDA a : a.status = "auto-resolved"))]

(* the three statistics addAnomaly recomputes from the log *)
statsOf(log) ==
    [total |-> Len(log),
     critical |-> Len(SelectSeq(log,
         LAMBDA a : a.severity = "high" \/ a.status = "active")),
     resolved |-> Len(SelectSeq(log, LAMBDA a : a.status = "auto-resolved"))]

(* a faulty addAnomaly: appending the auto-resolved event rewrites the status
   of the active events already in the log *)
addAnomalyResolving(log, status, title, description, tags, severity, clock) ==
    LET event == [id |-> clock, time |-> clock \div 1000, title |-> title,
                  description |-> description, tags |-> tags,
                  severity |-> severity, status |-> status]
        marked == [i \in 1..Len(log) |->
                     IF status = "auto-resolved" /\ log[i].status = "active"
                     THEN [log[i] EXCEPT !.status = "resolved"] ELSE log[i]]
        kept == evict(<<event>> \o marked)
    IN [anomalies |-> kept, anomalyStats |-> statsOf(kept)]

(* addAnomaly without its rendering call: the log and the statistics after
   the call.  clock is the value of Date.now(); formatTime keeps its seconds. *)
addAnomaly(log, status, title, description, tags, severity, clock) ==
    LET event == [id |-> clock, time |-> clock \div 1000, title |-> title,
                  description |-> description, tags |-> tags,
                  severity |-> severity, status |-> status]
        kept == evict(<<event>> \o log)
    IN [anomalies |-> kept, anomalyStats |-> statsOf(kept)]

(* the tags and descriptions of the three events the program logs; the
   source's double arrow and dash are written in ASCII *)
activeTags == <<"HR<->SpO2", "HRV Decline", "Correlation Shift">>
resolvedTags == <<"HR", "SpO2", "HRV">>
infoTags == <<"System", "All Signals", "Baseline Set">>

activeText == "HR-SpO2 inverse correlation strengthening while HRV is declining. This pattern may indicate early-stage autonomic stress response. Monitoring closely."
resolvedText == "Correlation patterns have returned to baseline. The transient divergence resolved without intervention."
infoText == "Multi-signal correlation engine is online. Monitoring 6 physiological signals with real-time cross-correlation analysis. Early-stage risk prediction active."

----------------------------------------------------------------------------
(* VITALS SIMULATOR *)

(* the anomaly drift of generateVital's switch, in fine units; sev15 is the
   severity in fifteenths, g the Gaussian sample drawn in the case *)
drift(signal, sev15, g) ==
    CASE signal = "hr"     -> (sev15 * 8000000) \div rampTicks + g * 200000
      [] signal = "spo2"   -> -((sev15 * 2500000) \div rampTicks + Abs(g) * 50000)
      [] signal = "rr"     -> (sev15 * 4000000) \div rampTicks + g * 100000
      [] signal = "hrv"    -> -((sev15 * 10000000) \div rampTicks + Abs(g) * 200000)
      [] signal = "bp_sys" -> (sev15 * 6000000) \div rampTicks + g * 200000
      [] signal = "temp"   -> (sev15 * 600000) \div rampTicks + g * 10000
      [] OTHER             -> 0

(* a faulty severity: elapsed / 15 without the cap *)
severity15Uncapped(elapsed) == elapsed

(* Math.min(elapsed / 15, 1), in fifteenths *)
severity15(elapsed) == Min2(elapsed, rampTicks)

(* Math.floor(Math.random() * 20) for Math.random() = rnd / RandomDen *)
randomOffset(rnd) == (rnd * retriggerSpan) \div RandomDen

(* a faulty mean reversion: the difference is taken the wrong way round, so
   that the value is pushed away from the baseline *)
reversionAway(v) == (v.value - v.baseline) * 8000

(* the mean-reversion term (v.baseline - v.value) * 0.08, in fine units *)
reversion(v) == (v.baseline - v.value) * 8000

(* a faulty clamp of generateVital: the upper bound is not applied *)
boundedBelow(newVal, v) == Max2(Fine(v.min), newVal)

(* newVal = clamp(newVal, v.min, v.max), in fine units *)
bounded(newVal, v) == clamp(newVal, Fine(v.min), Fine(v.max))

(* a faulty auto-resolve test: the episode ends only if a condition that
   never holds is met *)
resolvesNever(elapsed) == elapsed > anomalyDuration /\ elapsed < 0

(* a faulty auto-resolve test: elapsed > 21 ends the episode a tick late *)
resolvesLate(elapsed) == elapsed > anomalyDuration + 1

(* a faulty auto-resolve test: elapsed >= 20 ends the episode a tick early *)
resolvesEarly(elapsed) == elapsed >= anomalyDuration

(* the auto-resolve test of generateVital *)
resolves(elapsed) == elapsed > anomalyDuration

(* generateVital(signal) on the engine state st (a record of the fields of
   `state`); g1 is the noise sample, g2 the sample of the drift case, rnd the
   Math.random() of the re-trigger offset *)
generateVital(st, signal, g1, g2, rnd) ==
    LET v == st.vitals[signal]
        circadian == (SinE5(st.tick) * v.variance) \div 2
        noise == g1 * v.variance * 10000
        base == Fine(v.value) + reversion(v) + circadian \div 10 + noise
        elapsed == st.tick - st.anomalyModeStart
        drifted == IF st.anomalyMode
                   THEN base + drift(signal, severity15(elapsed), g2)
                   ELSE base
        resolve == st.anomalyMode /\ resolves(elapsed)
        logged == addAnomaly(st.anomalies, "auto-resolved",
                      "Multi-Signal Pattern Normalized",
                      resolvedText, resolvedTags, "low", st.now)
        newVal == roundTenth(bounded(drifted, v))
        nv == [v EXCEPT !.value = newVal,
                        !.history = pushCapped(v.history, newVal, chartPoints)]
    IN [st EXCEPT
          !.vitals = [st.vitals EXCEPT ![signal] = nv],
          !.anomalyMode = IF resolve THEN FALSE ELSE st.anomalyMode,
          !.anomalies = IF resolve THEN logged.anomalies ELSE st.anomalies,
          !.anomalyStats = IF resolve THEN logged.anomalyStats ELSE st.anomalyStats,
          !.nextAnomalyTick = IF resolve
                              THEN st.tick + retriggerBase + randomOffset(rnd)
                              ELSE st.nextAnomalyTick]

(* the values of a signal's entry of state.vitals, of an event of the log,
   and of the part of `state` that generateVital reads and writes *)
VitalRecord == [value : Int, baseline : Int, min : Int, max : Int,
                variance : Int, history : Seq(Int)]
EventRecord == [id : Int, time : Int, title : STRING, description : STRING,
                tags : Seq(STRING), severity : STRING, status : STRING]
EngineState == [vitals : [SignalSet -> VitalRecord], tick : Int, now : Int,
                anomalyMode : BOOLEAN, anomalyModeStart : Int,
                nextAnomalyTick : Int, anomalies : Seq(EventRecord),
                anomalyStats : [total : Int, critical : Int, resolved : Int]]

(* CONFIG.signals.forEach(s => generateVital(s)), from signal number i on *)
generateAll[st \in EngineState, i \in Int, sd \in Int, rnd \in Int] ==
    IF i > Len(signals) THEN st
    ELSE generateAll[generateVital(st, signals[i],
                                   gaussRandom(sd, st.tick, i, 0),
                                   gaussRandom(sd, st.tick, i, 1), rnd),
                     i + 1, sd, rnd]

(* the "Store trend data" loop of updateAllVitals *)
storeTrend(trend, vit) ==
    [s \in DOMAIN trend |-> pushCapped(trend[s], Fine(vit[s].value), trendPoints)]

----------------------------------------------------------------------------
(* CORRELATION ENGINE *)

(* the position of a signal in CONFIG.matrixSignals *)
matrixIndex(a) == CHOOSE i \in 1..Len(matrixSignals) : matrixSignals[i] = a

(* state.correlations for the coefficients e, listed row by row *)
matrixOf[e \in DoubleArray] ==
    [p \in MatrixSet \X MatrixSet |->
        e[(matrixIndex(p[1]) - 1) * Len(matrixSignals) + matrixIndex(p[2])]]

(* the coefficients of all ordered pairs, row by row, from what
   pearsonCorrelation computes from each series alone *)
correlate[cen \in Seq(Centered)] ==
    arrayOf([k \in 1..(Len(cen) * Len(cen)) |->
                LET i == (k - 1) \div Len(cen) + 1
                    j == ((k - 1) % Len(cen)) + 1
                IN IF i = j THEN One ELSE pearsonOf[cen[i], cen[j]]],
            Len(cen) * Len(cen))

(* a faulty updateCorrelations: the inner loop starts at j = i, so the keys
   of the pairs with i > j are never written *)
updateCorrelationsUpper(vit) ==
    LET hist(i) == vit[matrixSignals[i]].history
        m == Len(matrixSignals)
    IN matrixOf[arrayOf([k \in 1..(m * m) |->
                LET i == (k - 1) \div m + 1
                    j == ((k - 1) % m) + 1
                IN IF i = j THEN One
                   ELSE IF i > j THEN Zero
                   ELSE pearsonCorrelation(hist(i), hist(j))], m * m)]

(* updateCorrelations(): 1 on the diagonal and one call of pearsonCorrelation
   per ordered pair of distinct signals.  The part of a call that depends on
   one series only (centered) is the same in every call that takes the same
   number of samples, so when the histories are equally long, as the program
   keeps them, it is evaluated once per signal. *)
updateCorrelations(vit) ==
    LET hist(i) == vit[matrixSignals[i]].history
        m == Len(matrixSignals)
        n0 == Len(hist(1))
    IN IF n0 >= minSamples /\ \A i \in 1..m : Len(hist(i)) = n0
       THEN matrixOf[correlate[arrayOf([i \in 1..m |-> centered[hist(i), n0]], m)]]
       ELSE matrixOf[arrayOf([k \in 1..(m * m) |->
                LET i == (k - 1) \div m + 1
                    j == ((k - 1) % m) + 1
                IN IF i = j THEN One
                   ELSE pearsonCorrelation(hist(i), hist(j))], m * m)]

----------------------------------------------------------------------------
(* RISK PREDICTION ENGINE *)

RiskScale == 10^6

(* Math.abs(a) *)
fabs[a \in Double] == <<Abs(a[1]), a[2], a[3], a[4]>>

(* a < b, for a >= 0 and b >= 0 *)
below[a \in Double, b \in Double] ==
    IF b[1] = 0 THEN FALSE
    ELSE IF a[1] = 0 THEN TRUE
    ELSE \/ a[2] < b[2]
         \/ a[2] = b[2] /\ a[3] < b[3]
         \/ a[2] = b[2] /\ a[3] = b[3] /\ a[4] < b[4]

(* <<Math.floor(a), h>> for 0 <= a < 2^30, where h is 1 when the fraction
   of a is at least 1/2 and 0 otherwise *)
wholeAndHalf[a \in Double] ==
    IF a[1] = 0 \/ a[2] < -54 THEN <<0, 0>>
    ELSE IF a[2] = -54 THEN <<0, 0>>
    ELSE IF a[2] = -53 THEN <<0, 1>>
    ELSE IF a[2] <= -29
    THEN <<a[3] \div 2^(-a[2] - 28),
           IF a[3] % 2^(-a[2] - 28) >= 2^(-a[2] - 29) THEN 1 ELSE 0>>
    ELSE IF a[2] = -28
    THEN <<a[3], IF a[4] >= 2^27 THEN 1 ELSE 0>>
    ELSE <<a[3] * 2^(28 + a[2]) + a[4] \div 2^(-a[2]),
           IF a[4] % 2^(-a[2]) >= 2^(-a[2] - 1) THEN 1 ELSE 0>>

(* Math.abs(state.correlations[key] || 0) *)
corrAt(corr, a, b) ==
    IF <<a, b>> \in DOMAIN corr THEN fabs[corr[<<a, b>>]] ELSE Zero

(* Math.abs(v.value - v.baseline) / v.baseline *)
deviation[v \in VitalRecord] ==
    fdiv[fabs[fsub[fromTenths[v.value], fromTenths[v.baseline]]],
         fromTenths[v.baseline]]

(* a faulty deviation term: the weight is left out *)
devTermUnweighted(weight, dev) == dev

(* dev * weight *)
devTerm(weight, dev) == fmul[dev, fromTenths[weight * 10]]

(* corr * weight *)
corrTerm(weight, c) == fmul[c, fromTenths[weight * 10]]

(* (a + b + c + d) * 100 *)
timesHundred[a \in Double, b \in Double, c \in Double, d \in Double] ==
    fmul[fadd[fadd[fadd[a, b], c], d], fromTenths[1000]]

(* clamp(risk, lo, 95) *)
clampRisk[risk \in Double, lo \in Int] ==
    IF below[risk, fromTenths[lo * 10]] THEN fromTenths[lo * 10]
    ELSE IF below[fromTenths[950], risk] THEN fromTenths[950]
    ELSE risk

(* a faulty target: the risk is rounded without being clamped *)
riskTargetUnclamped(risk, lo) == wholeAndHalf[risk][1] + wholeAndHalf[risk][2]

(* a faulty target: the clamped risk is truncated, not rounded *)
riskTargetTruncated(risk, lo) == wholeAndHalf[clampRisk[risk, lo]][1]

(* Math.round(clamp(risk, lo, 95)), an integer *)
riskTarget(risk, lo) ==
    wholeAndHalf[clampRisk[risk, lo]][1] + wholeAndHalf[clampRisk[risk, lo]][2]

(* dev < num / den  and  dev > num / den, num / den being the literal of the
   source as the double it denotes *)
devBelow(dev, num, den) == below[dev, fromRatio[num, den]]
devAbove(dev, num, den) == below[fromRatio[num, den], dev]

updateRisks(rk, vit, corr) ==
    LET hrDev == deviation[vit.hr]
        bpDev == deviation[vit.bp_sys]
        hrvDev == deviation[vit.hrv]
        spo2Dev == deviation[vit.spo2]
        rrDev == deviation[vit.rr]
        tempDev == deviation[vit.temp]
        hrBpCorr == corrAt(corr, "hr", "bp_sys")
        spo2RrCorr == corrAt(corr, "spo2", "rr")
        tempHrCorr == corrAt(corr, "temp", "hr")
        spo2HrvCorr == corrAt(corr, "spo2", "hrv")
        cardioRisk == timesHundred[devTerm(30, hrDev), devTerm(25, bpDev),
                                   devTerm(25, hrvDev), corrTerm(20, hrBpCorr)]
        respRisk == timesHundred[devTerm(35, spo2Dev), devTerm(30, rrDev),
                                 devTerm(15, hrDev), corrTerm(20, spo2RrCorr)]
        metaRisk == timesHundred[devTerm(30, tempDev), devTerm(25, hrDev),
                                 devTerm(20, bpDev), corrTerm(25, tempHrCorr)]
        apneaRisk == timesHundred[devTerm(35, spo2Dev), devTerm(25, rrDev),
                                  devTerm(20, hrvDev), corrTerm(20, spo2HrvCorr)]
    IN [cardio |->
          [value |-> rk.cardio.value,
           target |-> riskTarget(cardioRisk, 3),
           factors |-> << IF devAbove(hrBpCorr, 1, 2)
                          THEN "HR-BP Sync: Elevated" ELSE "HR-BP Sync: Normal",
                          IF devBelow(hrvDev, 15, 100) THEN "HRV Stability: Good"
                          ELSE IF devBelow(hrvDev, 3, 10) THEN "HRV Stability: Fair"
                          ELSE "HRV Stability: Poor" >>],
        respiratory |->
          [value |-> rk.respiratory.value,
           target |-> riskTarget(respRisk, 2),
           factors |-> << IF devAbove(spo2RrCorr, 1, 2)
                          THEN "SpO2-RR Sync: Diverging" ELSE "SpO2-RR Sync: Normal",
                          IF devBelow(rrDev, 15, 100) THEN "Breathing Pattern: Regular"
                          ELSE "Breathing Pattern: Irregular" >>],
        metabolic |->
          [value |-> rk.metabolic.value,
           target |-> riskTarget(metaRisk, 3),
           factors |-> << IF devAbove(tempHrCorr, 1, 2)
                          THEN "Temp-HR Pattern: Coupling" ELSE "Temp-HR Pattern: Normal",
                          IF devBelow(tempDev, 5, 1000) THEN "Circadian Rhythm: Aligned"
                          ELSE "Circadian Rhythm: Shifted" >>],
        apnea |->
          [value |-> rk.apnea.value,
           target |-> riskTarget(apneaRisk, 1),
           factors |-> << IF devAbove(spo2Dev, 2, 100)
                          THEN "Night SpO2 Dips: Detected" ELSE "Night SpO2 Dips: None",
                          IF devBelow(rrDev, 1, 10) THEN "RR Irregularity: Low"
                          ELSE "RR Irregularity: Moderate" >>]]

(* a faulty interpolation: the step is 1.1 times the distance to b *)
lerpBeyond(a, b) == a + ((b * RiskScale - a) * 11) \div 10

(* lerp(a, b, 0.1) for a in 1/RiskScale and an integer b *)
lerp(a, b) == a + (b * RiskScale - a) \div 10

(* a faulty renderRisks: it also moves the target to where the value was *)
renderRisksRetarget(rk) ==
    [k \in DOMAIN rk |->
        [rk[k] EXCEPT !.value = lerp(rk[k].value, rk[k].target),
                      !.target = rk[k].value \div RiskScale]]

(* the state change of renderRisks: every value moves toward its target *)
renderRisks(rk) ==
    [k \in DOMAIN rk |-> [rk[k] EXCEPT !.value = lerp(rk[k].value, rk[k].target)]]

(* the literal of state.risks *)
initialRisks ==
    [cardio      |-> [value |-> 12 * RiskScale, target |-> 12, factors |-> <<>>],
     respiratory |-> [value |-> 8 * RiskScale,  target |-> 8,  factors |-> <<>>],
     metabolic   |-> [value |-> 15 * RiskScale, target |-> 15, factors |-> <<>>],
     apnea       |-> [value |-> 6 * RiskScale,  target |-> 6,  factors |-> <<>>]]

----------------------------------------------------------------------------
(* THE PAGE.  Of what the rendering functions draw, `shown` keeps the texts
   and classes that depend on the engine's state; the canvases (mini charts,
   gauges, trend lines) are left out. *)

(* updateVitalStatus: the label for the deviation
   Math.abs(value - baseline) / Math.abs(max - min) *)
updateVitalStatus[v \in VitalRecord] ==
    LET dev == fdiv[fabs[fsub[fromTenths[v.value], fromTenths[v.baseline]]],
                    fabs[fsub[fromTenths[v.max], fromTenths[v.min]]]]
    IN IF below[fromRatio[35, 100], dev] THEN "Alert"
       ELSE IF below[fromRatio[18, 100], dev] THEN "Watch"
       ELSE "Normal"

(* renderVitals: the text of every card (Math.round(value), for temp
   value.toFixed(1) in tenths) and its status; bp_dia has no status *)
renderVitals(vit) ==
    [s \in DOMAIN vit |->
        [text |-> IF s = "temp" THEN vit[s].value ELSE (vit[s].value + 5) \div 10,
         status |-> IF s = "bp_dia" THEN "" ELSE updateVitalStatus[vit[s]]]]

(* getCorrelationColor: the colour of a cell, without its opacity *)
getCorrelationColor[val \in Double] ==
    IF val[1] >= 0
    THEN IF ~below[val, fromRatio[7, 10]] THEN "0, 255, 136"
         ELSE IF ~below[val, fromRatio[3, 10]] THEN "0, 212, 255"
         ELSE "108, 114, 147"
    ELSE IF ~below[fromRatio[3, 10], fabs[val]] THEN "108, 114, 147"
         ELSE IF ~below[fromRatio[7, 10], fabs[val]] THEN "255, 184, 0"
         ELSE "255, 0, 110"

(* renderCorrelationMatrix: background and text colour of every cell off the
   diagonal *)
renderCorrelationMatrix(corr) ==
    [p \in {q \in DOMAIN corr : q[1] # q[2]} |->
        [background |-> getCorrelationColor[corr[p]],
         color |-> IF below[fromRatio[1, 2], fabs[corr[p]]]
                   THEN "#fff" ELSE "rgba(255,255,255,0.6)"]]

(* the texts renderRisks writes: Math.round(risk.value) and the factors *)
riskTexts(rk) ==
    [k \in DOMAIN rk |->
        [value |-> (rk[k].value + RiskScale \div 2) \div RiskScale,
         factors |-> rk[k].factors]]

(* renderTrendChart for hr and spo2: the top label of the value axis,
   (Math.max(...data) + 2).toFixed(0) *)
renderTrendCharts(trend) ==
    [s \in {"hr", "spo2"} |->
        LET data == {trend[s][i] : i \in 1..Len(trend[s])}
            top == CHOOSE m \in data : \A x \in data : x <= m
        IN (top + Fine(20) + Fine(5)) \div Fine(10)]

(* a faulty renderAnomalyTimeline: the counters are not rewritten *)
renderTimelineStale(panel, log, stats) ==
    [stats |-> panel.stats,
     items |-> IF Len(log) = 0 \/ Len(panel.items) = Len(log)
               THEN panel.items ELSE log]

(* renderAnomalyTimeline on the panel as it is: the three counters are
   rewritten; the items are rewritten from the log unless the log is empty
   or the panel holds as many items as the log has events *)
renderAnomalyTimeline(panel, log, stats) ==
    [stats |-> stats,
     items |-> IF Len(log) = 0 \/ Len(panel.items) = Len(log)
               THEN panel.items ELSE log]

(* the timeline after a step that took the log from old to log: addAnomaly
   ends with renderAnomalyTimeline() *)
timelineAfter(panel, old, log, stats) ==
    IF log # old THEN renderAnomalyTimeline(panel, log, stats) ELSE panel

(* updateHeader: the time of "Last sync", formatTime(new Date()) *)
updateHeader(clock) == clock \div 1000

(* the page after init(): its "Initial render" draws every panel but the
   header, whose text is the one of the document (-1), and the
   informational event is then drawn by addAnomaly *)
pageAfterInit(vit, corr, rk, trend, log, stats) ==
    [vitals |-> renderVitals(vit),
     matrix |-> renderCorrelationMatrix(corr),
     risks |-> riskTexts(rk),
     trend |-> renderTrendCharts(trend),
     timeline |-> renderAnomalyTimeline(
                      renderAnomalyTimeline(
                          [stats |-> [total |-> 0, critical |-> 0, resolved |-> 0],
                           items |-> <<>>],
                          <<>>, [total |-> 0, critical |-> 0, resolved |-> 0]),
                      log, stats),
     header |-> -1]

----------------------------------------------------------------------------
(* INITIALIZATION *)

(* one pre-filled sample of init(): clamp(baseline + noise, min, max) with
   noise = gaussRandom() * variance * 0.5, in fine units *)
prefillSample(v, g) ==
    clamp(Fine(v.baseline) + g * v.variance * 5000, Fine(v.min), Fine(v.max))

(* the vitals after init()'s "Pre-fill some history" loop *)
prefilledVitals(cfg, sd) ==
    [s \in DOMAIN cfg |->
        LET i == CHOOSE j \in 1..Len(signals) : signals[j] = s
        IN [cfg[s] EXCEPT !.history =
               [k \in 1..prefillHistory |->
                   roundTenth(prefillSample(cfg[s], gaussRandom(sd, 0, i, k)))]]]

(* state.trendData after init()'s "Pre-fill trend data" loop *)
prefilledTrend(cfg, sd) ==
    [s \in TrendSet |->
        LET i == CHOOSE j \in 1..Len(signals) : signals[j] = s
        IN [k \in 1..prefillTrend |->
               prefillSample(cfg[s], gaussRandom(sd, 0, i, prefillHistory + k))]]

(* the state init() leaves for the configuration cfg: pre-filled histories,
   first correlations, risks and rendering, and the informational event *)
InitFrom(cfg, sd, firstTick) ==
    LET logged == addAnomaly(<<>>, "info",
                      "System Initialized - Correlation Monitoring Active",
                      infoText, infoTags, "low", 0)
    IN /\ vitals = prefilledVitals(cfg, sd)
       /\ correlations = updateCorrelations(vitals)
       /\ risks = renderRisks(updateRisks(initialRisks, vitals, correlations))
       /\ trendData = prefilledTrend(cfg, sd)
       /\ anomalies = logged.anomalies
       /\ anomalyStats = logged.anomalyStats
       /\ tick = 0
       /\ anomalyMode = FALSE
       /\ anomalyModeStart = 0
       /\ nextAnomalyTick = firstTick
       /\ now = 0
       /\ seed = sd
       /\ lastOp = "init"
       /\ pc = 0
       /\ shown = pageAfterInit(vitals, correlations, risks, trendData,
                                anomalies, anomalyStats)

Idle == /\ script = <<>>
        /\ calls = 0
        /\ px = <<>>
        /\ py = <<>>
        /\ pr = <<>>

Init == \E sd \in 0..MaxSeed : InitFrom(initialVitals, sd, firstAnomalyTick) /\ Idle

----------------------------------------------------------------------------
(* THE TICK *)

(* a faulty trigger test: the !state.anomalyMode conjunct is missing *)
triggersAgain(mode, t, nxt) == t >= nxt

(* a faulty trigger test: > for >= *)
triggersLate(mode, t, nxt) == ~mode /\ t > nxt

(* the trigger test of updateAllVitals, on the incremented tick t *)
triggers(mode, t, nxt) == ~mode /\ t >= nxt

(* a faulty start event: it carries the tags of the resolution event *)
activeEventMistagged(log, clock) ==
    addAnomaly(log, "active",
        "Multi-Signal Correlation Divergence Detected", activeText,
        resolvedTags, "medium", clock)

(* the event updateAllVitals appends when the episode starts *)
activeEvent(log, clock) ==
    addAnomaly(log, "active",
        "Multi-Signal Correlation Divergence Detected", activeText,
        activeTags, "medium", clock)

(* updateAllVitals(), the setInterval callback; the timer fires every
   updateInterval ms.  rnd is the Math.random() consumed if the episode
   resolves in this tick. *)
updateAllVitals(rnd) ==
    LET t == tick + 1
        clock == now + updateInterval
        trigger == triggers(anomalyMode, t, nextAnomalyTick)
        logged == activeEvent(anomalies, clock)
        st0 == [vitals |-> vitals, tick |-> t, now |-> clock,
                anomalyMode |-> IF trigger THEN TRUE ELSE anomalyMode,
                anomalyModeStart |-> IF trigger THEN t ELSE anomalyModeStart,
                nextAnomalyTick |-> nextAnomalyTick,
                anomalies |-> IF trigger THEN logged.anomalies ELSE anomalies,
                anomalyStats |-> IF trigger THEN logged.anomalyStats ELSE anomalyStats]
        st == generateAll[st0, 1, seed, rnd]
    IN /\ vitals' = st.vitals
       /\ correlations' = updateCorrelations(vitals')
       /\ risks' = renderRisks(updateRisks(risks, vitals', correlations'))
       /\ trendData' = storeTrend(trendData, vitals')
       /\ tick' = t
       /\ now' = clock
       /\ anomalyMode' = st.anomalyMode
       /\ anomalyModeStart' = st.anomalyModeStart
       /\ nextAnomalyTick' = st.nextAnomalyTick
       /\ anomalies' = st.anomalies
       /\ anomalyStats' = st.anomalyStats
       /\ lastOp' = "tick"
       /\ shown' = [vitals |-> renderVitals(vitals'),
                    matrix |-> renderCorrelationMatrix(correlations'),
                    risks |-> riskTexts(risks'),
                    trend |-> renderTrendCharts(trendData'),
                    timeline |-> timelineAfter(shown.timeline, anomalies,
                                               anomalies', anomalyStats'),
                    header |-> updateHeader(now')]
       /\ UNCHANGED <<seed, script, calls, px, py, pr, pc>>

(* the Math.random() values that can matter in the coming tick *)
RandomDraws ==
    IF anomalyMode /\ resolves(tick + 1 - anomalyModeStart)
    THEN 0..(RandomDen - 1) ELSE {0}

Tick == /\ tick < MaxTick
        /\ \E rnd \in RandomDraws : updateAllVitals(rnd)

Next == Tick

Spec == Init /\ [][Next]_vars

----------------------------------------------------------------------------
(* THE TICK, STATEMENT BY STATEMENT (specification SpecSteps).  At pc = 0
   the next statement of updateAllVitals is its first (the increment and the
   trigger block); pipeline lists the statements that follow, and at
   pc = i > 0 the next statement is pipeline[i]. *)

(* a faulty order: updateRisks is called before updateCorrelations *)
pipelineRisksFirst ==
    [i \in 1..Len(signals) |-> "generateVital"] \o
    <<"storeTrend", "updateRisks", "updateCorrelations", "renderVitals",
      "renderCorrelationMatrix", "renderRisks", "renderTrendCharts",
      "updateHeader">>

pipeline ==
    [i \in 1..Len(signals) |-> "generateVital"] \o
    <<"storeTrend", "updateCorrelations", "updateRisks", "renderVitals",
      "renderCorrelationMatrix", "renderRisks", "renderTrendCharts",
      "updateHeader">>

(* the next statement is the call of the function named *)
at(name) == pc \in DOMAIN pipeline /\ pipeline[pc] = name

(* state.tick++ and the "Check if should trigger anomaly mode" block *)
StepBegin ==
    /\ pc = 0
    /\ tick < MaxTick
    /\ LET t == tick + 1
           clock == now + updateInterval
           trigger == triggers(anomalyMode, t, nextAnomalyTick)
           logged == activeEvent(anomalies, clock)
       IN /\ tick' = t
          /\ now' = clock
          /\ anomalyMode' = IF trigger THEN TRUE ELSE anomalyMode
          /\ anomalyModeStart' = IF trigger THEN t ELSE anomalyModeStart
          /\ anomalies' = IF trigger THEN logged.anomalies ELSE anomalies
          /\ anomalyStats' = IF trigger THEN logged.anomalyStats ELSE anomalyStats
    /\ shown' = [shown EXCEPT !.timeline =
                    timelineAfter(@, anomalies, anomalies', anomalyStats')]
    /\ pc' = 1
    /\ lastOp' = "begin"
    /\ UNCHANGED <<vitals, correlations, risks, trendData, nextAnomalyTick,
                   seed, script, calls, px, py, pr>>

(* the Math.random() values that can matter in the coming generateVital *)
StepDraws ==
    IF anomalyMode /\ resolves(tick - anomalyModeStart)
    THEN 0..(RandomDen - 1) ELSE {0}

(* generateVital(signals[pc]) *)
StepGenerate ==
    /\ at("generateVital")
    /\ \E rnd \in StepDraws :
          LET st == generateVital(
                        [vitals |-> vitals, tick |-> tick, now |-> now,
                         anomalyMode |-> anomalyMode,
                         anomalyModeStart |-> anomalyModeStart,
                         nextAnomalyTick |-> nextAnomalyTick,
                         anomalies |-> anomalies,
                         anomalyStats |-> anomalyStats],
                        signals[pc], gaussRandom(seed, tick, pc, 0),
                        gaussRandom(seed, tick, pc, 1), rnd)
          IN /\ vitals' = st.vitals
             /\ anomalyMode' = st.anomalyMode
             /\ anomalyModeStart' = st.anomalyModeStart
             /\ nextAnomalyTick' = st.nextAnomalyTick
             /\ anomalies' = st.anomalies
             /\ anomalyStats' = st.anomalyStats
    /\ shown' = [shown EXCEPT !.timeline =
                    timelineAfter(@, anomalies, anomalies', anomalyStats')]
    /\ pc' = pc + 1
    /\ lastOp' = "generateVital"
    /\ UNCHANGED <<correlations, risks, trendData, tick, now, seed, script,
                   calls, px, py, pr>>

(* the "Store trend data" loop *)
StepStoreTrend ==
    /\ at("storeTrend")
    /\ trendData' = storeTrend(trendData, vitals)
    /\ pc' = pc + 1
    /\ lastOp' = "storeTrend"
    /\ UNCHANGED <<vitals, correlations, risks, anomalies, anomalyStats, tick,
                   anomalyMode, anomalyModeStart, nextAnomalyTick, now, seed,
                   script, calls, px, py, pr, shown>>

(* updateCorrelations() *)
StepCorrelations ==
    /\ at("updateCorrelations")
    /\ correlations' = updateCorrelations(vitals)
    /\ pc' = pc + 1
    /\ lastOp' = "updateCorrelations"
    /\ UNCHANGED <<vitals, risks, anomalies, anomalyStats, trendData, tick,
                   anomalyMode, anomalyModeStart, nextAnomalyTick, now, seed,
                   script, calls, px, py, pr, shown>>

(* updateRisks() *)
StepRisks ==
    /\ at("updateRisks")
    /\ risks' = updateRisks(risks, vitals, correlations)
    /\ pc' = pc + 1
    /\ lastOp' = "updateRisks"
    /\ UNCHANGED <<vitals, correlations, anomalies, anomalyStats, trendData,
                   tick, anomalyMode, anomalyModeStart, nextAnomalyTick, now,
                   seed, script, calls, px, py, pr, shown>>

(* renderVitals() *)
StepRenderVitals ==
    /\ at("renderVitals")
    /\ shown' = [shown EXCEPT !.vitals = renderVitals(vitals)]
    /\ pc' = pc + 1
    /\ lastOp' = "renderVitals"
    /\ UNCHANGED <<vitals, correlations, risks, anomalies, anomalyStats,
                   trendData, tick, anomalyMode, anomalyModeStart,
                   nextAnomalyTick, now, seed, script, calls, px, py, pr>>

(* renderCorrelationMatrix() *)
StepRenderMatrix ==
    /\ at("renderCorrelationMatrix")
    /\ shown' = [shown EXCEPT !.matrix = renderCorrelationMatrix(correlations)]
    /\ pc' = pc + 1
    /\ lastOp' = "renderCorrelationMatrix"
    /\ UNCHANGED <<vitals, correlations, risks, anomalies, anomalyStats,
                   trendData, tick, anomalyMode, anomalyModeStart,
                   nextAnomalyTick, now, seed, script, calls, px, py, pr>>

(* renderRisks() *)
StepRenderRisks ==
    /\ at("renderRisks")
    /\ risks' = renderRisks(risks)
    /\ shown' = [shown EXCEPT !.risks = riskTexts(risks')]
    /\ pc' = pc + 1
    /\ lastOp' = "renderRisks"
    /\ UNCHANGED <<vitals, correlations, anomalies, anomalyStats, trendData,
                   tick, anomalyMode, anomalyModeStart, nextAnomalyTick, now,
                   seed, script, calls, px, py, pr>>

(* renderTrendCharts() *)
StepRenderTrend ==
    /\ at("renderTrendCharts")
    /\ shown' = [shown EXCEPT !.trend = renderTrendCharts(trendData)]
    /\ pc' = pc + 1
    /\ lastOp' = "renderTrendCharts"
    /\ UNCHANGED <<vitals, correlations, risks, anomalies, anomalyStats,
                   trendData, tick, anomalyMode, anomalyModeStart,
                   nextAnomalyTick, now, seed, script, calls, px, py, pr>>

(* updateHeader(), the last statement: the call of updateAllVitals is over *)
StepHeader ==
    /\ at("updateHeader")
    /\ shown' = [shown EXCEPT !.header = updateHeader(now)]
    /\ pc' = 0
    /\ lastOp' = "tick"
    /\ UNCHANGED <<vitals, correlations, risks, anomalies, anomalyStats,
                   trendData, tick, anomalyMode, anomalyModeStart,
                   nextAnomalyTick, now, seed, script, calls, px, py, pr>>

NextSteps ==
    \/ StepBegin
    \/ StepGenerate
    \/ StepStoreTrend
    \/ StepCorrelations
    \/ StepRisks
    \/ StepRenderVitals
    \/ StepRenderMatrix
    \/ StepRenderRisks
    \/ StepRenderTrend
    \/ StepHeader

SpecSteps == Init /\ [][NextSteps]_vars

----------------------------------------------------------------------------
(* DIRECT CALLS OF addAnomaly (specification SpecLog) *)

(* the <<status, severity>> of the events appended *)
EventKinds ==
    {<<"info", "low">>, <<"active", "medium">>, <<"auto-resolved", "low">>,
     <<"info", "high">>, <<"active", "high">>}

(* init(), followed by calls addAnomaly(status, ..., severity) whose kinds
   repeat the sequence `script`; a millisecond passes before each call *)
InitLog ==
    /\ InitFrom(initialVitals, 0, firstAnomalyTick)
    /\ script \in [1..ScriptLen -> EventKinds]
    /\ calls = 0
    /\ px = <<>>
    /\ py = <<>>
    /\ pr = <<>>

(* one direct call of addAnomaly *)
CallAddAnomaly ==
    /\ calls < MaxAppends
    /\ LET kind == script[(calls % Len(script)) + 1]
           logged == addAnomaly(anomalies, kind[1], "Event", "A direct call.",
                                <<"Tag">>, kind[2], now + 1)
       IN /\ anomalies' = logged.anomalies
          /\ anomalyStats' = logged.anomalyStats
    /\ now' = now + 1
    /\ calls' = calls + 1
    /\ lastOp' = "append"
    /\ shown' = [shown EXCEPT !.timeline =
                    renderAnomalyTimeline(@, anomalies', anomalyStats')]
    /\ UNCHANGED <<vitals, correlations, risks, trendData, tick, anomalyMode,
                   anomalyModeStart, nextAnomalyTick, seed, script, px, py, pr,
                   pc>>

NextLog == CallAddAnomaly

SpecLog == InitLog /\ [][NextLog]_vars

(* C4: the log never holds more than 15 events; an append puts the new event
   at index 0 (the front), and an append to a log of 15 removes the event
   inserted earliest, which is the last one, and no other. *)
C4_LogCapacity ==
    [][/\ Len(anomalies) <= 15
       /\ Len(anomalies') <= 15
       /\ calls' = calls + 1 =>
             /\ anomalies'[1].id = now'
             /\ \A i \in 1..Len(anomalies) : anomalies[i].id < now'
             /\ IF Len(anomalies) = 15
                THEN /\ Len(anomalies') = 15
                     /\ \A i \in 1..14 : anomalies'[i + 1] = anomalies[i]
                     /\ \A i \in 1..14 : anomalies[15].id < anomalies[i].id
                ELSE /\ Len(anomalies') = Len(anomalies) + 1
                     /\ \A i \in 1..Len(anomalies) : anomalies'[i + 1] = anomalies[i]
      ]_vars

(* the second append to a full log has evicted the first direct event *)
C4_Witness ==
    /\ calls = 17 /\ Len(anomalies) = 15
    /\ anomalies[1].id = now /\ anomalies[15].id = 3

(* C5: the statistics agree with the log: total is its length, critical the
   number of its events of severity high or status active, resolved the
   number of its auto-resolved events; hence total <= 15, and critical +
   resolved <= total. *)
C5_Stats ==
    /\ anomalyStats.total = Len(anomalies)
    /\ anomalyStats.critical =
          Cardinality({i \in 1..Len(anomalies) :
              anomalies[i].severity = "high" \/ anomalies[i].status = "active"})
    /\ anomalyStats.resolved =
          Cardinality({i \in 1..Len(anomalies) :
              anomalies[i].status = "auto-resolved"})
    /\ anomalyStats.total <= 15
    /\ anomalyStats.critical + anomalyStats.resolved <= anomalyStats.total

(* an append has evicted an active event, so that the critical count went
   down, while a resolved and a critical event remain *)
C5_Witness ==
    /\ calls = 16 /\ anomalyStats.total = 15
    /\ script[1] = <<"active", "medium">>
    /\ script[2] = <<"auto-resolved", "low">>
    /\ script[3] = <<"info", "high">>
    /\ anomalyStats.critical = 10 /\ anomalyStats.resolved = 5

----------------------------------------------------------------------------
(* THE ENGINE WITHOUT NOISE AND WITHOUT EPISODES (specification SpecReversion) *)

(* the starting points: baseline + k tenths for |k| <= MaxDist, and the two
   bounds, which k = -MaxDist - 1 and k = MaxDist + 1 stand for *)
StartOffsets == (-MaxDist - 1)..(MaxDist + 1)

(* state.vitals with every variance 0 and every value at its starting point *)
calmVitals(k) ==
    [s \in SignalSet |->
        [initialVitals[s] EXCEPT
            !.variance = 0,
            !.value = IF k < -MaxDist THEN initialVitals[s].min
                      ELSE IF k > MaxDist THEN initialVitals[s].max
                      ELSE clamp(initialVitals[s].baseline + k,
                                 initialVitals[s].min, initialVitals[s].max)]]

(* init() on that configuration, the first episode being due after the run *)
InitReversion ==
    \E k \in StartOffsets : InitFrom(calmVitals(k), 0, MaxCalm + 1) /\ Idle

CalmTick == /\ tick < MaxCalm
            /\ \E rnd \in RandomDraws : updateAllVitals(rnd)

NextReversion == CalmTick

SpecReversion == InitReversion /\ [][NextReversion]_vars

(* C8 as claimed: without noise and episodes a tick never increases a
   signal's distance from its baseline, never takes the value to the other
   side of it, and never leaves the value where it was unless it is the
   baseline, so that the value reaches the baseline. *)
C8_Converges ==
    [][\A s \in SignalSet :
          LET d == vitals[s].value - vitals[s].baseline
              e == vitals'[s].value - vitals'[s].baseline
          IN /\ Abs(e) <= Abs(d)
             /\ d * e >= 0
             /\ e = d => d = 0
      ]_vars

(* C8 as amended: the distance never increases and the value never crosses
   the baseline; a tick moves the value strictly closer while it is more than
   0.6 away and leaves it unchanged once it is within 0.6 of the baseline,
   where it stops. *)
C8_Reversion ==
    [][\A s \in SignalSet :
          LET d == vitals[s].value - vitals[s].baseline
              e == vitals'[s].value - vitals'[s].baseline
          IN /\ Abs(e) <= Abs(d)
             /\ d * e >= 0
             /\ Abs(d) > 6 => Abs(e) < Abs(d)
             /\ Abs(d) <= 6 => e = d
      ]_vars

(* a signal has come down from far above its baseline and has stopped 0.6
   above it *)
C8_Witness ==
    /\ lastOp = "tick"
    /\ \E s \in SignalSet :
          LET h == vitals[s].history
          IN /\ vitals[s].value = vitals[s].baseline + 6
             /\ h[Len(h) - 1] = vitals[s].value
             /\ h[1] > vitals[s].value + 50

----------------------------------------------------------------------------
(* DIRECT CALLS OF pearsonCorrelation (specification SpecPearson) *)

(* the stored values the series are made of, in tenths: 98.1 and 98.8 *)
SampleValues == {981, 988}

(* the series of at most n samples *)
SeriesUpTo(n) == UNION {[1..l -> SampleValues] : l \in 0..n}

(* init(), and the arguments x and y of one call *)
InitPearson ==
    /\ InitFrom(initialVitals, 0, firstAnomalyTick)
    /\ script = <<>>
    /\ calls = 0
    /\ px \in SeriesUpTo(MaxLen)
    /\ py \in SeriesUpTo(MaxLen)
    /\ pr = <<>>

(* the call pearsonCorrelation(px, py) *)
CallPearson ==
    /\ pr = <<>>
    /\ pr' = pearsonCorrelation(px, py)
    /\ lastOp' = "pearson"
    /\ UNCHANGED <<vitals, correlations, risks, anomalies, anomalyStats,
                   trendData, tick, anomalyMode, anomalyModeStart,
                   nextAnomalyTick, now, seed, script, calls, px, py, pc,
                   shown>>

NextPearson == CallPearson

SpecPearson == InitPearson /\ [][NextPearson]_vars

(* the last n entries of x *)
lastOf(x, n) == SubSeq(x, Len(x) - n + 1, Len(x))

(* all entries of x are equal *)
isConstant(x) == \A i \in 1..Len(x) : x[i] = x[1]

(* C10: the call returns a number, which is exactly 0 when fewer than 5
   samples overlap and when either series is constant over the overlap;
   otherwise it is what the last min(|x|, |y|) samples of each series give. *)
C10_Degenerate ==
    lastOp = "pearson" =>
        LET n == Min2(Len(px), Len(py))
        IN /\ pr \in Double /\ Len(pr) = 4
           /\ n < 5 => pr = Zero
           /\ isConstant(lastOf(px, n)) \/ isConstant(lastOf(py, n)) => pr = Zero
           /\ pr = pearsonCorrelation(lastOf(px, n), lastOf(py, n))

----------------------------------------------------------------------------
(* the clamp range [floor, 95] of a risk category, as the claims state it *)
riskFloor(k) ==
    CASE k = "cardio" -> 3
      [] k = "respiratory" -> 2
      [] k = "metabolic" -> 3
      [] k = "apnea" -> 1

----------------------------------------------------------------------------
(* pearsonCorrelation ON COLLINEAR SERIES (specification SpecLinear) *)

(* the maps v |-> a * v + b as <<a, b in tenths>>: 2v, 6 - v, 3v + 0.7 and
   1 - 3v *)
LinearMaps == {<<2, 0>>, <<-1, 60>>, <<3, 7>>, <<-3, 10>>}

(* the series x: [1, 2, 3, 4, 5] and the series of 5..MaxLen stored values *)
LinearInputs ==
    {<<10, 20, 30, 40, 50>>}
        \cup UNION {[1..l -> SampleValues] : l \in minSamples..MaxLen}

(* x.map(v => a * v + b), in double arithmetic *)
linearImage[xs \in DoubleArray, a \in Double, b \in Double] ==
    arrayOf([i \in 1..Len(xs) |-> fadd[fmul[a, xs[i]], b]], Len(xs))

(* pearsonCorrelation(xs, ys) for arrays of doubles *)
pearsonOfArrays[xs \in DoubleArray, ys \in DoubleArray] ==
    IF Min2(Len(xs), Len(ys)) < minSamples THEN Zero
    ELSE pearsonOf[centeredOf[lastOf(xs, Min2(Len(xs), Len(ys)))],
                   centeredOf[lastOf(ys, Min2(Len(xs), Len(ys)))]]

(* init(), the series x and the coefficients <<a, b>> of one call *)
InitLinear ==
    /\ InitFrom(initialVitals, 0, firstAnomalyTick)
    /\ script \in LinearMaps
    /\ calls = 0
    /\ px \in LinearInputs
    /\ py = <<>>
    /\ pr = <<>>

(* the call pearsonCorrelation(x, x.map(v => a * v + b)); py keeps the image *)
CallLinear ==
    /\ pr = <<>>
    /\ py' = linearImage[slice[px, Len(px)], fromTenths[script[1] * 10],
                         fromTenths[script[2]]]
    /\ pr' = pearsonOfArrays[slice[px, Len(px)], py']
    /\ lastOp' = "linear"
    /\ UNCHANGED <<vitals, correlations, risks, anomalies, anomalyStats,
                   trendData, tick, anomalyMode, anomalyModeStart,
                   nextAnomalyTick, now, seed, script, calls, px, pc, shown>>

NextLinear == CallLinear

SpecLinear == InitLinear /\ [][NextLinear]_vars

(* C11: for a series x of at least 5 samples that is not constant
   and y = a * x + b, the call returns exactly 1 when a > 0 and exactly -1
   when a < 0. *)
C11_Collinear ==
    (lastOp = "linear" /\ ~isConstant(px)) =>
        pr = IF script[1] > 0 THEN One ELSE fneg[One]

----------------------------------------------------------------------------
(* THE SMOOTHING OF THE RISK VALUES (specification SpecSmooth) *)

(* the values and targets the categories start from *)
SmoothValues == {0, 12, 50, 100}
SmoothTargets == {3, 12, 50, 95}

(* the engine as init() leaves it, with state.vitals, state.correlations and
   state.risks set to vit, corr and rk *)
EngineAt(vit, corr, rk, sd) ==
    LET logged == addAnomaly(<<>>, "info",
                      "System Initialized - Correlation Monitoring Active",
                      infoText, infoTags, "low", 0)
    IN /\ vitals = vit
       /\ correlations = corr
       /\ risks = rk
       /\ trendData = prefilledTrend(initialVitals, sd)
       /\ anomalies = logged.anomalies
       /\ anomalyStats = logged.anomalyStats
       /\ tick = 0
       /\ anomalyMode = FALSE
       /\ anomalyModeStart = 0
       /\ nextAnomalyTick = firstAnomalyTick
       /\ now = 0
       /\ seed = sd
       /\ lastOp = "init"
       /\ calls = 0
       /\ px = <<>>
       /\ py = <<>>
       /\ pr = <<>>
       /\ pc = 0
       /\ shown = pageAfterInit(vitals, correlations, risks, trendData,
                                anomalies, anomalyStats)

(* the state init() leaves, except that every category of state.risks holds
   the value v0 and the target t; script keeps <<v0, t>> *)
InitSmooth ==
    \E sd \in 0..MaxSeed, v0 \in SmoothValues, t \in SmoothTargets :
        /\ EngineAt(prefilledVitals(initialVitals, sd),
                    updateCorrelations(prefilledVitals(initialVitals, sd)),
                    [k \in DOMAIN initialRisks |->
                        [value |-> v0 * RiskScale, target |-> t, factors |-> <<>>]],
                    sd)
        /\ script = <<v0, t>>

(* one direct call of renderRisks(): the targets are left as they are *)
CallRenderRisks ==
    /\ tick = 0
    /\ calls < MaxRenders
    /\ risks' = renderRisks(risks)
    /\ calls' = calls + 1
    /\ lastOp' = "render"
    /\ shown' = [shown EXCEPT !.risks = riskTexts(risks')]
    /\ UNCHANGED <<vitals, correlations, anomalies, anomalyStats, trendData,
                   tick, anomalyMode, anomalyModeStart, nextAnomalyTick, now,
                   seed, script, px, py, pr, pc>>

(* one tick, which recomputes the targets before it smooths *)
SmoothTick ==
    /\ calls = 0
    /\ tick < MaxSmoothTicks
    /\ \E rnd \in RandomDraws : updateAllVitals(rnd)

NextSmooth == CallRenderRisks \/ SmoothTick

SpecSmooth == InitSmooth /\ [][NextSmooth]_vars

(* target - (target - value_0) * 0.9^n in 1/RiskScale, for integers target
   and value_0 *)
geometric(v0, t, n) ==
    IF n <= 6 THEN t * RiskScale - (t - v0) * 9^n * 10^(6 - n)
    ELSE t * RiskScale - ((t - v0) * 9^n) \div 10^(n - 6)

(* C13: every tick and every call of renderRisks replaces each value by
   value + (target - value) * 0.1 for the target then stored, once; the value
   moves toward the target and never beyond it, and stays where it is when
   it equals the target; after n calls with the target held constant it is
   target - (target - value_0) * 0.9^n (to the resolution 10^-6 of the
   model). *)
C13_Smoothing ==
    [][\A k \in DOMAIN risks :
          LET v == risks[k].value
              w == risks'[k].value
              T == risks'[k].target * RiskScale
          IN /\ 10 * (w - v) <= T - v
             /\ T - v < 10 * (w - v) + 10
             /\ v <= T => (v <= w /\ w <= T)
             /\ v >= T => (T <= w /\ w <= v)
             /\ v = T => w = v
             /\ lastOp' = "render" =>
                   /\ risks'[k].target = risks[k].target
                   /\ Abs(w - geometric(script[1], script[2], calls')) <= 1
      ]_vars

(* six calls have taken every value from 12 to 95 - 83 * 0.9^6 = 50.890397 *)
C13_Witness ==
    /\ lastOp = "render" /\ calls = 6 /\ script = <<12, 95>>
    /\ \A k \in DOMAIN risks :
          risks[k].target = 95 /\ risks[k].value = 50890397

----------------------------------------------------------------------------
(* DIRECT CALLS OF addAnomaly FOLLOWED BY TICKS (specification SpecEvents) *)

(* init(), then direct calls of addAnomaly of one kind that fill the log past
   its capacity, then the timer *)
InitEvents ==
    /\ InitFrom(initialVitals, 0, firstAnomalyTick)
    /\ script \in {<<k>> : k \in EventKinds}
    /\ calls = 0
    /\ px = <<>>
    /\ py = <<>>
    /\ pr = <<>>

(* a tick on the log the direct calls have filled *)
EventTick ==
    /\ calls = MaxAppends
    /\ tick < MaxEventTick
    /\ \E rnd \in RandomDraws : updateAllVitals(rnd)

NextEvents == (tick = 0 /\ CallAddAnomaly) \/ EventTick

SpecEvents == InitEvents /\ [][NextEvents]_vars

(* C19: no step changes a field of an event that stays in the log or the
   order of the events that stay: the log is left as it is or one event is
   put in front of it, the others moving back by one place; an event leaves
   the log only as the last entry of a full log when another is appended;
   and the active event of an episode is still in the log, with status
   active and every field as appended, after the tick that resolves the
   episode. *)
C19_EventsImmutable ==
    [][/\ \/ anomalies' = anomalies
          \/ /\ Len(anomalies') = Min2(Len(anomalies) + 1, 15)
             /\ \A i \in 2..Len(anomalies') : anomalies'[i] = anomalies[i - 1]
             /\ \A i \in 1..Len(anomalies) : anomalies'[1].id # anomalies[i].id
       /\ \A i \in 1..Len(anomalies) :
             (\A j \in 1..Len(anomalies') : anomalies'[j] # anomalies[i])
                => i = 15 /\ Len(anomalies') = 15 /\ anomalies'[1] # anomalies[1]
       /\ anomalyMode /\ ~anomalyMode' =>
             /\ anomalies[1].status = "active"
             /\ anomalies'[1].status = "auto-resolved"
             /\ anomalies'[2] = anomalies[1]
      ]_vars

(* the tick that resolved the episode has appended its event to a full log:
   the oldest entry is gone and the episode's active event, now second, has
   kept its status, its tags and the time of the trigger *)
C19_Witness ==
    /\ lastOp = "tick" /\ calls = MaxAppends
    /\ ~anomalyMode /\ tick = anomalyModeStart + 21
    /\ Len(anomalies) = 15
    /\ anomalies[1].status = "auto-resolved"
    /\ anomalies[2].status = "active"
    /\ anomalies[2].tags = activeTags
    /\ anomalies[2].id = now - 21 * updateInterval

----------------------------------------------------------------------------
(* THE TIMER KEEPS FIRING (specification SpecLive): setInterval calls
   updateAllVitals again and again, so a tick that can be taken is
   eventually taken.  The run is followed up to tick MaxLiveTick, which is
   past the second resolution for every re-trigger offset. *)

LiveTick ==
    /\ tick < MaxLiveTick
    /\ \E rnd \in RandomDraws : updateAllVitals(rnd)

(* a call of updateAllVitals as the counter shows it (state.tick++); it is
   possible at every tick the run covers *)
TimerFires == tick < MaxLiveTick /\ tick' = tick + 1

SpecLive == Init /\ [][LiveTick]_vars /\ WF_tick(TimerFires)

(* C20: with the timer firing, every Active episode that the run has 21
   ticks left for ends, and every Idle period that the run has 44 ticks left
   for ends with an activation; the run reaches a second episode and a
   second resolution; and an Idle period that follows an episode lasts
   between 25 and 44 ticks, counted from the tick of the resolution
   (anomalyModeStart + 21) to the tick of the activation. *)
C20_Episodes ==
    /\ (anomalyMode /\ tick + 21 <= MaxLiveTick) ~> ~anomalyMode
    /\ (~anomalyMode /\ tick + 44 <= MaxLiveTick) ~> anomalyMode
    /\ <>(anomalyMode /\ anomalyModeStart > firstAnomalyTick)
    /\ <>(~anomalyMode /\ anomalyStats.resolved = 2)
    /\ [][~anomalyMode /\ anomalyMode' /\ anomalyModeStart > 0 =>
             /\ tick' - (anomalyModeStart + 21) \in 25..44
             /\ tick' = nextAnomalyTick
             /\ anomalyModeStart' = tick'
         ]_vars

(* the second episode is Active, 40 ticks after the first one resolved, and
   the second resolution, 21 ticks after an activation at tick 76 *)
C20_Witness ==
    /\ lastOp = "tick"
    /\ \/ /\ anomalyMode /\ anomalyStats.resolved = 1
          /\ anomalyModeStart = firstAnomalyTick + 21 + 40
       \/ /\ ~anomalyMode /\ anomalyStats.resolved = 2
          /\ tick = 76 + 21

----------------------------------------------------------------------------
(* DIRECT CALLS OF updateRisks (specification SpecRisk) *)

(* the table of the risk categories as the claims state it: the weighted
   signals, the weighted pair of the correlation matrix, and the floor *)
riskTable ==
    [cardio      |-> [devs |-> <<<<"hr", 30>>, <<"bp_sys", 25>>, <<"hrv", 25>>>>,
                      corr |-> <<"hr", "bp_sys", 20>>],
     respiratory |-> [devs |-> <<<<"spo2", 35>>, <<"rr", 30>>, <<"hr", 15>>>>,
                      corr |-> <<"spo2", "rr", 20>>],
     metabolic   |-> [devs |-> <<<<"temp", 30>>, <<"hr", 25>>, <<"bp_sys", 20>>>>,
                      corr |-> <<"temp", "hr", 25>>],
     apnea       |-> [devs |-> <<<<"spo2", 35>>, <<"rr", 25>>, <<"hrv", 20>>>>,
                      corr |-> <<"spo2", "hrv", 20>>]]

(* the weighted sum of category k times 100 by the table, in thousandths and
   rounded down term by term: the sum itself is at least this and less than
   0.1 more *)
tableScore(k, vit, corr) ==
    LET row == riskTable[k]
        dev(e) == e[2] * ((100000 * Abs(vit[e[1]].value - vit[e[1]].baseline))
                             \div vit[e[1]].baseline)
    IN dev(row.devs[1]) + dev(row.devs[2]) + dev(row.devs[3])
       + row.corr[3] * ((toFixed[corr[<<row.corr[1], row.corr[2]>>]] * 3125)
                           \div 2048)

(* a score in thousandths clamped to [lo, 95] and rounded to an integer *)
roundClamp(milli, lo) == (clamp(milli, lo * 1000, 95000) + 500) \div 1000

(* the distances from the baselines, in tenths, and the coefficients the
   scores are computed from *)
RiskOffsets ==
    [hr : {0, 7, -25}, spo2 : {0, -3}, bp_sys : {0, 12}, bp_dia : {0},
     temp : {0, 4}, rr : {0, -1}, hrv : {0, 4}]
RiskCorrelations == {Zero, fromRatio[1, 100], fromRatio[-1, 40], fromRatio[3, 4]}

(* init(), then every signal moved off its baseline and every coefficient
   off the diagonal set to c *)
InitRisk ==
    \E off \in RiskOffsets, c \in RiskCorrelations :
        /\ EngineAt([s \in SignalSet |->
                        [prefilledVitals(initialVitals, 0)[s] EXCEPT
                            !.value = @ + off[s]]],
                    [p \in MatrixSet \X MatrixSet |->
                        IF p[1] = p[2] THEN One ELSE c],
                    initialRisks, 0)
        /\ script = <<>>

(* one direct call of updateRisks() *)
CallUpdateRisks ==
    /\ lastOp = "init"
    /\ risks' = updateRisks(risks, vitals, correlations)
    /\ lastOp' = "risks"
    /\ UNCHANGED <<vitals, correlations, anomalies, anomalyStats, trendData,
                   tick, anomalyMode, anomalyModeStart, nextAnomalyTick, now,
                   seed, script, calls, px, py, pr, pc, shown>>

NextRisk == CallUpdateRisks

SpecRisk == InitRisk /\ [][NextRisk]_vars

(* C15: a recompute sets each category's target to the table's weighted sum
   times 100, clamped to [floor, 95] and rounded (the sum being taken to
   within 0.1), leaves its value alone and gives it exactly 2 factor
   labels. *)
C15_Scores ==
    lastOp = "risks" =>
        \A k \in DOMAIN risks :
            /\ roundClamp(tableScore(k, vitals, correlations), riskFloor(k))
                   <= risks[k].target
            /\ risks[k].target
                   <= roundClamp(tableScore(k, vitals, correlations) + 100,
                                 riskFloor(k))
            /\ risks[k].value = initialRisks[k].value
            /\ Len(risks[k].factors) = 2

(* a recompute has given four different scores inside the clamp ranges:
   29.17 + 25 + 23.81 + 20 for cardio, 10.71 + 18.75 + 14.58 + 20 for
   respiratory, 12.17 + 24.31 + 20 + 25 for metabolic and 10.71 + 15.63 +
   19.05 + 20 for apnea *)
C15_Witness ==
    /\ lastOp = "risks"
    /\ vitals.hr.value = 727 /\ vitals.spo2.value = 977
    /\ vitals.bp_sys.value = 1212 /\ vitals.temp.value = 990
    /\ vitals.rr.value = 159 /\ vitals.hrv.value = 424
    /\ correlations[<<"hr", "bp_sys">>] = fromRatio[1, 100]
    /\ risks.cardio.target = 95 /\ risks.respiratory.target = 64
    /\ risks.metabolic.target = 81 /\ risks.apnea.target = 65
    /\ \A k \in DOMAIN risks : Len(risks[k].factors) = 2

----------------------------------------------------------------------------
(* PROPERTIES OF THE ENGINE (specification Spec) *)

(* `new` is `old` with exactly one event of the given status and severity
   put in front, the entries of `old` following in their order and the last
   one dropped if `old` was full *)
AppendedOne(old, new, status, severity) ==
    /\ Len(new) = Min2(Len(old) + 1, 15)
    /\ new[1].status = status
    /\ new[1].severity = severity
    /\ \A i \in 2..Len(new) : new[i] = old[i - 1]

(* C1: an episode that became Active at tick T (anomalyModeStart) is still
   Active after every tick up to T+20 and resolves in tick T+21; that tick
   appends exactly one auto-resolved/low event and sets nextAnomalyTick to a
   value in [T+46, T+65]. *)
C1_AutoResolve ==
    [][anomalyMode =>
         IF tick' - anomalyModeStart <= 20
         THEN /\ anomalyMode'
              /\ anomalyModeStart' = anomalyModeStart
              /\ anomalies' = anomalies
         ELSE /\ tick' = anomalyModeStart + 21
              /\ ~anomalyMode'
              /\ AppendedOne(anomalies, anomalies', "auto-resolved", "low")
              /\ nextAnomalyTick' \in (anomalyModeStart + 46)..(anomalyModeStart + 65)
      ]_vars

(* a noisy run just after the first episode has resolved, in tick 51 *)
C1_Witness ==
    /\ seed > 0 /\ tick = 51 /\ ~anomalyMode /\ anomalyModeStart = 30
    /\ anomalies[1].status = "auto-resolved"
    /\ nextAnomalyTick > 76

(* C2: from the initialized state the engine is Idle after each of the
   ticks 1..29 and Active with start tick 30 after the 30th, when the log
   holds an active/medium event with the three correlation tags; for every
   noise stream. *)
C2_FirstEpisode ==
    /\ tick <= 29 => ~anomalyMode
    /\ tick = 30 =>
          /\ anomalyMode
          /\ anomalyModeStart = 30
          /\ \E i \in 1..Len(anomalies) :
                /\ anomalies[i].status = "active"
                /\ anomalies[i].severity = "medium"
                /\ anomalies[i].tags =
                      <<"HR<->SpO2", "HRV Decline", "Correlation Shift">>

(* the 30th tick of the run with the widest noise *)
C2_Witness == tick = 30 /\ seed = MaxSeed /\ anomalyMode /\ Len(anomalies) = 2

(* C3: Idle -> Active happens in the first tick whose counter is >=
   nextAnomalyTick and in no tick with a smaller counter; the transition
   appends exactly one active/medium event and sets the start tick to the
   current tick; no active event is appended while Active. *)
C3_Trigger ==
    [][/\ ~anomalyMode => tick < nextAnomalyTick
       /\ (~anomalyMode /\ tick' >= nextAnomalyTick) =>
             /\ anomalyMode'
             /\ anomalyModeStart' = tick'
             /\ AppendedOne(anomalies, anomalies', "active", "medium")
       /\ (~anomalyMode /\ tick' < nextAnomalyTick) =>
             /\ ~anomalyMode'
             /\ anomalies' = anomalies
       /\ anomalyMode =>
             \/ anomalies' = anomalies
             \/ anomalies'[1].status # "active"
      ]_vars

(* the second episode has just started, after a re-trigger delay *)
C3_Witness ==
    /\ anomalyMode /\ anomalyModeStart = tick /\ tick > 30
    /\ anomalies[1].status = "active" /\ anomalies[2].status = "auto-resolved"

(* C6: after every tick each signal's value and every entry of its history
   lie in [min, max]. *)
C6_WithinBounds ==
    \A s \in SignalSet :
        /\ vitals[s].min <= vitals[s].value
        /\ vitals[s].value <= vitals[s].max
        /\ \A i \in 1..Len(vitals[s].history) :
              /\ vitals[s].min <= vitals[s].history[i]
              /\ vitals[s].history[i] <= vitals[s].max

(* a tick has left one signal on its upper and another on its lower bound *)
C6_Witness ==
    /\ lastOp = "tick"
    /\ \E s \in SignalSet : vitals[s].value = vitals[s].max
    /\ \E s \in SignalSet : vitals[s].value = vitals[s].min

(* C7: a history never holds more than 40 entries and a trend sequence never
   more than 60; a tick that appends to a full sequence drops exactly its
   oldest entry, keeps the order of the others and puts the new value last. *)
C7_Capacity ==
    [][/\ \A s \in SignalSet :
             /\ Len(vitals[s].history) <= 40
             /\ Len(vitals'[s].history) <= 40
             /\ Len(vitals[s].history) = 40 =>
                   vitals'[s].history =
                       Tail(vitals[s].history) \o <<vitals'[s].value>>
       /\ \A s \in DOMAIN trendData :
             /\ Len(trendData[s]) <= 60
             /\ Len(trendData'[s]) <= 60
             /\ Len(trendData[s]) = 60 =>
                   trendData'[s] = Tail(trendData[s]) \o <<Fine(vitals'[s].value)>>
      ]_vars

(* both kinds of sequence are full and have been shifted at least once *)
C7_Witness ==
    /\ tick > 41
    /\ \A s \in SignalSet : Len(vitals[s].history) = 40
    /\ \A s \in DOMAIN trendData : Len(trendData[s]) = 60

(* C12: in every state each category's target lies in its clamp range
   (cardio [3, 95], respiratory [2, 95], metabolic [3, 95], apnea [1, 95]),
   its value lies in the interval spanned by its initial value (12, 8, 15,
   6) and that range, and both lie in [0, 100]. *)
C12_RiskRange ==
    \A k \in DOMAIN risks :
        LET first == initialRisks[k].value
        IN /\ riskFloor(k) <= risks[k].target
           /\ risks[k].target <= 95
           /\ Min2(first, riskFloor(k) * RiskScale) <= risks[k].value
           /\ risks[k].value <= Max2(first, 95 * RiskScale)
           /\ 0 <= risks[k].target /\ risks[k].target <= 100
           /\ 0 <= risks[k].value /\ risks[k].value <= 100 * RiskScale

(* a tick has left one target on its ceiling, one on its floor and one in
   between *)
C12_Witness ==
    /\ lastOp = "tick"
    /\ risks.cardio.target = 95
    /\ risks.respiratory.target = 2
    /\ risks.metabolic.target \in 4..94

(* C14 as stated: the value moves a tenth of the way toward the unrounded
   clamped weighted sum u; the table gives u to 0.1, and the new value w
   is then within value + (u - value) * 0.1 for a u in that interval. *)
C14_UnroundedTarget ==
    [][lastOp' = "tick" =>
          \A k \in DOMAIN risks :
             LET v == risks[k].value
                 w == risks'[k].value
                 score == tableScore(k, vitals', correlations')
                 lo == clamp(score, riskFloor(k) * 1000, 95000) * 1000
                 hi == clamp(score + 100, riskFloor(k) * 1000, 95000) * 1000
             IN /\ lo - v - 10 < 10 * (w - v)
                /\ 10 * (w - v) <= hi - v
      ]_vars

(* C14: a tick stores as target the clamped weighted sum rounded to the
   nearest integer, and the value moves a tenth of the way toward that
   rounded target. *)
C14_RoundedTarget ==
    [][lastOp' = "tick" =>
          \A k \in DOMAIN risks :
             LET v == risks[k].value
                 w == risks'[k].value
                 score == tableScore(k, vitals', correlations')
                 T == risks'[k].target
             IN /\ roundClamp(score, riskFloor(k)) <= T
                /\ T <= roundClamp(score + 100, riskFloor(k))
                /\ 10 * (w - v) <= T * RiskScale - v
                /\ T * RiskScale - v < 10 * (w - v) + 10
      ]_vars

(* a tick has stored a target inside the clamp range that differs from the
   weighted sum by more than 0.3, with the value still away from it *)
C14_Witness ==
    /\ lastOp = "tick"
    /\ \E k \in DOMAIN risks :
          LET score == tableScore(k, vitals, correlations)
          IN /\ risks[k].target \in (riskFloor(k) + 1)..94
             /\ Abs(risks[k].target * 1000 - score) > 300
             /\ Abs(risks[k].target * 1000 - score) < 600
             /\ Abs(risks[k].value - risks[k].target * RiskScale) > RiskScale

(* C9: after init and after every tick the matrix has an entry for each of
   the 36 ordered pairs of tracked signals, every entry lies in [-1, 1] and
   every diagonal entry is exactly 1. *)
C9_Matrix ==
    /\ DOMAIN correlations = MatrixSet \X MatrixSet
    /\ Cardinality(DOMAIN correlations) = 36
    /\ \A p \in DOMAIN correlations : withinOne(correlations[p])
    /\ \A s \in MatrixSet : correlations[<<s, s>>] = One

----------------------------------------------------------------------------
(* PROPERTIES OF THE STATEMENTS OF THE TICK (specification SpecSteps) *)

(* a call generateVital(s) leaves every other signal's entry as it is and
   changes nothing of s but its value and its history *)
onlySignal(s) ==
    /\ \A o \in SignalSet \ {s} : vitals'[o] = vitals[o]
    /\ vitals'[s] = [vitals[s] EXCEPT !.value = vitals'[s].value,
                                      !.history = vitals'[s].history]

(* C16: a call of generateVital changes only that signal's value
   and history (the trend is allowed to change) and leaves the anomaly
   state, the event log, the statistics and every other signal unchanged,
   also in the tick in which the episode has lasted more than 20 ticks. *)
C16_OnlyItsSignal ==
    [][lastOp' = "generateVital" =>
          /\ onlySignal(signals[pc])
          /\ UNCHANGED <<anomalyMode, anomalyModeStart, nextAnomalyTick,
                         anomalies, anomalyStats>>
      ]_vars

(* the statements of updateAllVitals that render *)
RenderSteps ==
    {"renderVitals", "renderCorrelationMatrix", "renderRisks",
     "renderTrendCharts", "updateHeader"}

(* the next statement is one of them *)
rendering == pc \in DOMAIN pipeline /\ pipeline[pc] \in RenderSteps

(* C17 as stated: every rendering statement leaves the engine's state
   (signals, matrix, risks, anomaly state, log, statistics, trend, tick)
   unchanged. *)
C17_RenderersReadOnly ==
    [][rendering => UNCHANGED engineVars]_vars

(* C17: renderVitals, renderCorrelationMatrix, renderTrendCharts and
   updateHeader leave the engine's state unchanged and so does the
   renderAnomalyTimeline that ends an append (the panel shows the statistics
   the append computed); renderRisks leaves it unchanged except that it
   replaces every risk value by value + (target - value) * 0.1, keeping
   target and factors, and the page shows that new value rounded. *)
C17_RenderersEffect ==
    [][/\ rendering /\ ~at("renderRisks") => UNCHANGED engineVars
       /\ at("renderRisks") =>
             /\ UNCHANGED <<vitals, correlations, anomalies, anomalyStats,
                            trendData, tick, anomalyMode, anomalyModeStart,
                            nextAnomalyTick, now>>
             /\ \A k \in DOMAIN risks :
                   /\ risks'[k].target = risks[k].target
                   /\ risks'[k].factors = risks[k].factors
                   /\ risks'[k].value = lerp(risks[k].value, risks[k].target)
                   /\ shown'.risks[k].value =
                         (risks'[k].value + RiskScale \div 2) \div RiskScale
       /\ shown'.timeline # shown.timeline =>
             shown'.timeline.stats = anomalyStats'
      ]_vars

(* renderRisks has just moved a value that is more than 10 away from its
   target, and the page shows the new value, which differs from the target *)
C17_Witness ==
    /\ lastOp = "renderRisks" /\ at("renderTrendCharts")
    /\ \E k \in DOMAIN risks :
          /\ Abs(risks[k].target * RiskScale - risks[k].value) > 10 * RiskScale
          /\ shown.risks[k].value # risks[k].target

(* C18 as stated: a panel of the page is drawn only from a state in which
   the tick's signals, correlation matrix and risk targets have all been
   updated, that is by a statement from renderVitals on. *)
C18_NoPartialTick ==
    [][shown' # shown => rendering]_vars

(* C18: the panels of the signals, the matrix, the risks and the trend and
   the header are drawn only by the five rendering statements that follow
   updateRisks, from the signals, matrix and trend of the finished tick;
   the timeline is drawn by the statement that appends an event (the trigger
   block or generateVital), before the signals of that tick are complete,
   and from the log and the statistics only. *)
C18_RenderAfterUpdate ==
    [][/\ \/ shown'.vitals # shown.vitals
          \/ shown'.matrix # shown.matrix
          \/ shown'.risks # shown.risks
          \/ shown'.trend # shown.trend
          \/ shown'.header # shown.header
          => /\ rendering
             /\ UNCHANGED <<vitals, correlations, trendData, tick, anomalies>>
             /\ \A s \in SignalSet : vitals[s].history[Len(vitals[s].history)]
                                         = vitals[s].value
       /\ shown'.timeline # shown.timeline
          => /\ pc = 0 \/ at("generateVital")
             /\ anomalies' # anomalies
             /\ shown'.timeline.stats = statsOf(anomalies')
             /\ shown'.vitals = shown.vitals /\ shown'.header = shown.header
      ]_vars

(* the trigger block has just drawn the new active event on the timeline,
   while the tick's signals are still to be generated and the header still
   shows the time of the previous tick *)
C18_Witness ==
    /\ lastOp = "begin" /\ pc = 1
    /\ anomalyMode /\ anomalyModeStart = tick
    /\ shown.timeline.items[1].status = "active"
    /\ shown.timeline.stats.critical = 1
    /\ shown.header = updateHeader(now - updateInterval)

(* the value generateVital stores for the signal it is called for in the
   current state, when the drift of an episode is scaled by sev15 fifteenths *)
storedWith(sev15) ==
    LET s == signals[pc]
        v == vitals[s]
        base == Fine(v.value) + reversion(v)
                + ((SinE5(tick) * v.variance) \div 2) \div 10
                + gaussRandom(seed, tick, pc, 0) * v.variance * 10000
        g == gaussRandom(seed, tick, pc, 1)
    IN roundTenth(bounded(IF anomalyMode THEN base + drift(s, sev15, g) ELSE base, v))

(* C21: in a call of generateVital during an episode started at tick T the
   severity is min((tick - T) / 15, 1): 0 in the tick of the activation,
   (tick - T) / 15 < 1 while tick - T < 15, exactly 1 from tick - T = 15 on,
   never less than a tick before; and the value stored is the one that this
   function of the elapsed ticks gives, whatever the signal values and the
   noise stream. *)
C21_Severity ==
    [][at("generateVital") =>
          LET e == tick - anomalyModeStart
              ramp == IF e >= 15 THEN 15 ELSE e
          IN /\ vitals'[signals[pc]].value = storedWith(ramp)
             /\ anomalyMode =>
                   /\ e >= 0
                   /\ severity15(e) = ramp
                   /\ e = 0 => severity15(e) = 0
                   /\ e < 15 => severity15(e) < rampTicks
                   /\ e >= 15 => severity15(e) = rampTicks
                   /\ e > 0 => severity15(e - 1) <= severity15(e)
      ]_vars

(* generateVital("hr") has run at full severity, 17 ticks into the episode,
   and the drift has taken hr more than 20 above its baseline *)
C21_Witness ==
    /\ lastOp = "generateVital" /\ pc = 2
    /\ anomalyMode /\ tick - anomalyModeStart = 17
    /\ vitals.hr.value > vitals.hr.baseline + 200

(* the targets and factors of rk *)
targetsOf(rk) ==
    [k \in DOMAIN rk |-> [target |-> rk[k].target, factors |-> rk[k].factors]]

(* C22: the statements of a tick run in the order increment, trigger check,
   the seven signals one after the other, correlation matrix, risk targets,
   risk smoothing; after a completed tick every history ends with the value
   of that tick, the matrix is the one computed from those histories and the
   targets are the ones computed from those values and that matrix. *)
C22_Order ==
    /\ [](pc = 0 /\ tick > 0 =>
            /\ \A s \in SignalSet :
                  vitals[s].history[Len(vitals[s].history)] = vitals[s].value
            /\ correlations = updateCorrelations(vitals)
            /\ targetsOf(risks)
                  = targetsOf(updateRisks(risks, vitals, correlations)))
    /\ [][/\ tick' # tick => pc = 0 /\ tick' = tick + 1
          /\ anomalyMode' /\ ~anomalyMode => pc = 0 /\ anomalyModeStart' = tick'
          /\ vitals' # vitals =>
                /\ pc \in 1..Len(signals) /\ tick' = tick
                /\ onlySignal(signals[pc])
          /\ pc \in 1..Len(signals) =>
                LET h == vitals'[signals[pc]].history
                IN /\ h[Len(h)] = vitals'[signals[pc]].value
                   /\ pc' = pc + 1
          /\ correlations' # correlations =>
                /\ pc > Len(signals) /\ tick' = tick
                /\ targetsOf(risks') = targetsOf(risks)
                /\ correlations' = updateCorrelations(vitals)
          /\ targetsOf(risks') # targetsOf(risks) =>
                /\ pc > Len(signals)
                /\ correlations = updateCorrelations(vitals)
                /\ \A k \in DOMAIN risks : risks'[k].value = risks[k].value
          /\ (\E k \in DOMAIN risks : risks'[k].value # risks[k].value) =>
                /\ targetsOf(risks) = targetsOf(updateRisks(risks, vitals,
                                                             correlations))
                /\ targetsOf(risks') = targetsOf(risks)
       ]_vars

(* tick 40 is complete: it has changed hr, and the matrix is the one of the
   histories that end with the new values *)
C22_Witness ==
    /\ lastOp = "tick" /\ pc = 0 /\ tick = 40
    /\ vitals.hr.history[40] # vitals.hr.history[39]
    /\ vitals.hr.history[40] = vitals.hr.value
    /\ corrAt(correlations, "hr", "spo2") # Zero
    /\ correlations = updateCorrelations(vitals)

(* C23: in the initial state and after every completed tick, an Active
   episode has lasted between 0 and 20 ticks and an Idle state has its next
   trigger tick in the future; and no tick both starts and ends an episode. *)
C23_AnomalyState ==
    /\ [](anomalyMode =>
            /\ 0 <= tick - anomalyModeStart
            /\ tick - anomalyModeStart <= anomalyDuration)
    /\ [](~anomalyMode => nextAnomalyTick > tick)
    /\ [][/\ ~anomalyMode /\ tick' >= nextAnomalyTick =>
                anomalyStats'.resolved = anomalyStats.resolved
          /\ anomalyMode /\ ~anomalyMode' =>
                /\ tick' - anomalyModeStart = anomalyDuration + 1
                /\ nextAnomalyTick' >= tick' + retriggerBase
          /\ ~anomalyMode /\ anomalyMode' =>
                /\ tick' = nextAnomalyTick /\ anomalyModeStart' = tick'
       ]_vars

(* the second episode: the first one has ended, the Idle period after it has
   run to its trigger tick, and the new episode is two ticks old *)
C23_Witness ==
    /\ anomalyMode /\ anomalyStats.resolved = 1
    /\ anomalyModeStart > firstAnomalyTick + anomalyDuration
    /\ tick = anomalyModeStart + 2

(* the value that the coming tick stores for signal number i if generateVital
   runs for it with the anomaly drift (on = TRUE) or without it *)
advancedWith(i, on) ==
    LET s == signals[i]
        v == vitals[s]
        t == tick + 1
        start == IF triggers(anomalyMode, t, nextAnomalyTick)
                 THEN t ELSE anomalyModeStart
        base == Fine(v.value) + reversion(v)
                + ((SinE5(t) * v.variance) \div 2) \div 10
                + gaussRandom(seed, t, i, 0) * v.variance * 10000
        g == gaussRandom(seed, t, i, 1)
    IN roundTenth(bounded(IF on THEN base + drift(s, severity15(t - start), g)
                                ELSE base, v))

(* C24: in every tick the anomaly drift is applied to every signal or to
   none: the values that a tick stores are those of generateVital with the
   drift for all seven signals (bp_dia has no drift term), or those of
   generateVital without the drift for all seven. *)
C24_AllOrNone ==
    [][tick' = tick + 1 =>
          \E on \in BOOLEAN :
              \A i \in 1..Len(signals) :
                  vitals'[signals[i]].value = advancedWith(i, on)
      ]_vars

(* the statuses of the events that ticks have appended, oldest first: the
   log is newest first and init's info event is not one of them; no event
   has left the log as long as it holds fewer than 15 *)
lifecycle ==
    LET byTicks == SelectSeq(anomalies, LAMBDA a : a.status # "info")
    IN [i \in 1..Len(byTicks) |-> byTicks[Len(byTicks) + 1 - i].status]

(* C25: the events appended by ticks are active, auto-resolved, active,
   auto-resolved, ... in this order; the number of active events minus the
   number of auto-resolved events is 1 while the episode is Active and 0
   while the state is Idle; and a tick appends at most one event. *)
C25_Alternation ==
    /\ [](Len(anomalies) < maxAnomalies =>
            /\ \A i \in 1..Len(lifecycle) :
                  lifecycle[i] = IF i % 2 = 1 THEN "active" ELSE "auto-resolved"
            /\ Len(SelectSeq(lifecycle, LAMBDA x : x = "active"))
                - Len(SelectSeq(lifecycle, LAMBDA x : x = "auto-resolved"))
                  = IF anomalyMode THEN 1 ELSE 0)
    /\ [][tick' = tick + 1 =>
             \/ anomalies' = anomalies
             \/ /\ Len(anomalies') = Len(anomalies) + 1
                /\ Tail(anomalies') = anomalies
                /\ anomalies'[1].status \in {"active", "auto-resolved"}
                /\ anomalyMode' # anomalyMode
       ]_vars

(* two episodes have started and ended: the ticks have appended four events *)
C25_Witness ==
    /\ ~anomalyMode /\ lastOp = "tick"
    /\ lifecycle = <<"active", "auto-resolved", "active", "auto-resolved">>
    /\ anomalies[Len(anomalies)].status = "info"

(* C26: after init and n ticks every history has min(15 + n, 40) entries and
   every trend sequence min(20 + n, 60); so two histories have the same
   length, the overlap that a correlation uses is at least 15, and
   pearsonCorrelation never returns 0 for want of 5 samples. *)
C26_Lengths ==
    /\ \A s \in SignalSet :
          Len(vitals[s].history) = Min2(prefillHistory + tick, chartPoints)
    /\ DOMAIN trendData = TrendSet
    /\ \A s \in TrendSet :
          Len(trendData[s]) = Min2(prefillTrend + tick, trendPoints)
    /\ \A a, b \in SignalSet :
          LET n == Min2(Len(vitals[a].history), Len(vitals[b].history))
          IN /\ Len(vitals[a].history) = Len(vitals[b].history)
             /\ n >= prefillHistory
             /\ ~(n < minSamples)

(* both bounds are at work: 45 ticks after init the histories hold the last
   40 values and the trend sequences the last 60, hr's newest being the
   value on show *)
C26_Witness ==
    /\ tick = 45 /\ lastOp = "tick"
    /\ Len(vitals.hr.history) = 40 /\ Len(trendData.hr) = 60
    /\ vitals.hr.history[40] = vitals.hr.value
    /\ trendData.hr[60] = Fine(vitals.hr.value)

(* C27: the matrix is symmetric after every recompute, the entry of (a, b)
   being the entry of (b, a); and pearsonCorrelation gives the same number
   with its arguments exchanged, also for series of different lengths (here
   the last 6 samples of one history against the whole of another). *)
C27_Symmetric ==
    /\ DOMAIN correlations = MatrixSet \X MatrixSet
    /\ \A a, b \in MatrixSet :
          /\ correlations[<<a, b>>] = correlations[<<b, a>>]
          /\ a # b =>
                LET x == lastOf(vitals[a].history, 6)
                    y == vitals[b].history
                IN pearsonCorrelation(x, y) = pearsonCorrelation(y, x)

(* after a tick of the episode the entries of hr and spo2 are one nonzero
   number that is not 1, stored under both keys *)
C27_Witness ==
    /\ lastOp = "tick" /\ anomalyMode /\ tick >= 40
    /\ correlations[<<"hr", "spo2">>] = correlations[<<"spo2", "hr">>]
    /\ correlations[<<"hr", "spo2">>] \notin {Zero, One}
    /\ correlations[<<"hr", "spo2">>][1] = -1

====
